---- MODULE Spec2Model ----
(***************************************************************************)
(* State-machine model of the RDPDR device-redirection client              *)
(* (rdpclient/src/rdpdr.rs) and of its directory-sharing client            *)
(* (rdpclient/src/rdpdr/dir.rs).                                           *)
(*                                                                         *)
(* A handler of the source, fn(&mut self, ..) -> RdpResult<Vec<u8>>, is an *)
(* operator from a client record cli (the fields of dir::Client plus the   *)
(* TDP requests handed to the tdp_sd_*_request senders) to a result record *)
(* [cli, res, bytes]: res is "ok", "err" (the handler returned Err) or     *)
(* "panic"; bytes is the returned Vec<u8>, <<>> for vec![] and <<r>> for   *)
(* the encoding of the response struct r.  A boxed FnOnce continuation is  *)
(* a record tagged with the place that created it and holding what the     *)
(* closure captured.                                                       *)
(***************************************************************************)
EXTENDS Naturals, Sequences, FiniteSets, TLC

\* ------------------------------------------------------------------ bounds
MaxRoundTrips == 2
MaxCompletionId == 2
MaxFileId == 1
\* next_file_id is a u32: its width in the model, in bits
FileIdBits == 3
\* vchan::CHANNEL_CHUNK_LEGNTH, the most inner bytes of a chunk (16384 in the
\* source), scaled down; no smaller than the PDUs of the clipboard
\* initialization, which the source sends in one chunk each
CHANNEL_CHUNK_LEGNTH == 24
\* logical PDUs the peer of the clipboard client encodes and sends
MaxMessages == 2
\* chunks an arbitrary peer sends on the cliprdr channel
MaxChunks == 3
\* calls of update_clipboard in a run
MaxUpdates == 2
\* the length of the texts the host copies
MaxTextLen == 3

\* --------------------------------------------------------------- constants
SCARD_DEVICE_ID == 1
DriveDeviceId == 2

FILE_SUPERSEDE == 0
FILE_OPEN == 1
FILE_CREATE == 2
FILE_OPEN_IF == 3
FILE_OVERWRITE == 4
FILE_OVERWRITE_IF == 5

CreateDispositions ==
  {FILE_SUPERSEDE, FILE_OPEN, FILE_CREATE, FILE_OPEN_IF, FILE_OVERWRITE, FILE_OVERWRITE_IF}

CreateOptionFlags == {"FILE_DIRECTORY_FILE", "FILE_NON_DIRECTORY_FILE"}

TdpErrCode == {"Nil", "Failed", "DoesNotExist", "AlreadyExists"}

FileType == {"File", "Directory"}

Kinds == {"info", "create", "delete", "list", "read", "write", "move"}

CompletionIds == 1..MaxCompletionId
FileIds == 0..MaxFileId
\* the path CREATE IRPs open, and the path renames move it to
OpenPaths == {"a"}
RenamePaths == {"b"}

\* FileSystemObject values the host answers with (lib.rs FileSystemObject).
FileSystemObject(ft, empty, p) ==
  [last_modified |-> 1000, size |-> 1, file_type |-> ft, is_empty |-> empty, path |-> p]

HostFsos ==
  { FileSystemObject("File", 1, "a"),
    FileSystemObject("Directory", 1, "a"),
    FileSystemObject("Directory", 0, "a") }

\* ----------------------------------------------------------------- helpers
\* bitflags: the set bits of a flags value below 8, and `intersects`.
Bits(n) == {i \in 0..2 : (n \div (2 ^ i)) % 2 = 1}

intersects(a, b) == Bits(a) \cap Bits(b) # {}

BitOr(a, b) ==
  LET s == Bits(a) \cup Bits(b)
      v(i) == IF i \in s THEN 2 ^ i ELSE 0
  IN v(0) + v(1) + v(2)

\* HashMap::insert / HashMap::remove on a map held as a function.
MapInsert(m, k, v) == [x \in (DOMAIN m) \cup {k} |-> IF x = k THEN v ELSE m[x]]

MapRemove(m, k) == [x \in (DOMAIN m) \ {k} |-> m[x]]

EmptyMap == [x \in {} |-> 0]

\* results of a handler
Ok(cli, bytes) == [cli |-> cli, res |-> "ok", bytes |-> bytes]

Err(cli) == [cli |-> cli, res |-> "err", bytes |-> <<>>]

Panic(cli) == [cli |-> cli, res |-> "panic", bytes |-> <<>>]

\* (self.tdp_sd_<kind>_request)(req): hand a TDP request to the host.
SendTdp(cli, kind, req) ==
  [cli EXCEPT !.tdp = Append(@, [kind |-> kind] @@ req)]

\* self.pending_sd_<kind>_resp_handlers.insert(completion_id, Box::new(..))
Register(cli, kind, cid, cont) ==
  [cli EXCEPT !.pending[kind] = MapInsert(@, cid, cont)]

\* ------------------------------------------------------------ dir::Client
\* DeviceIoResponse::new answering with the file id in place of the completion id
DeviceIoResponse_new_file_id(req, io_status) ==
  [device_id |-> req.device_id, completion_id |-> req.file_id, io_status |-> io_status]

DeviceIoResponse_new(req, io_status) ==
  [device_id |-> req.device_id, completion_id |-> req.completion_id, io_status |-> io_status]

\* DeviceCreateResponse::new; information "PANIC" stands for the panic!() arm.
DeviceCreateResponse_new(req, io_status, file_id) ==
  LET information ==
        IF io_status # "STATUS_SUCCESS"
           \/ intersects(req.create_disposition,
                         BitOr(BitOr(FILE_SUPERSEDE, FILE_OPEN), BitOr(FILE_CREATE, FILE_OVERWRITE)))
        THEN "FILE_SUPERSEDED"
        ELSE IF req.create_disposition = FILE_OPEN_IF THEN "FILE_OPENED"
        ELSE IF req.create_disposition = FILE_OVERWRITE_IF THEN "FILE_OVERWRITTEN"
        ELSE "PANIC"
  IN [rsp |-> "DeviceCreateResponse",
      device_io_reply |-> DeviceIoResponse_new(req, io_status),
      file_id |-> file_id,
      information |-> information]

prep_device_create_response(cli, req, io_status, new_file_id) ==
  LET resp == DeviceCreateResponse_new(req, io_status, new_file_id)
  IN IF resp.information = "PANIC" THEN Panic(cli) ELSE Ok(cli, <<resp>>)

DeviceCloseResponse_new(req, io_status) ==
  [rsp |-> "DeviceCloseResponse", device_io_reply |-> DeviceIoResponse_new(req, io_status)]

prep_device_close_response(cli, req, io_status) ==
  Ok(cli, <<DeviceCloseResponse_new(req, io_status)>>)

\* self.next_file_id.wrapping_add(1)
generate_file_id(cli) == [cli EXCEPT !.next_file_id = (@ + 1) % (2 ^ FileIdBits)]

FileCacheObject_new(path, fso) ==
  [path |-> path, delete_pending |-> FALSE, fso |-> fso, contents |-> <<>>,
   contents_i |-> 0, dot_sent |-> FALSE, dotdot_sent |-> FALSE]

\* the opening of a file that forgets file_cache.insert
open_file_uncached(cli, req, fso) ==
  LET c1 == generate_file_id(cli)
  IN prep_device_create_response(c1, req, "STATUS_SUCCESS", c1.next_file_id)

\* generate_file_id, file_cache.insert, prep_device_create_response(SUCCESS)
open_file(cli, req, fso) ==
  LET c1 == generate_file_id(cli)
      file_id == c1.next_file_id
      c2 == [c1 EXCEPT !.file_cache = MapInsert(@, file_id, FileCacheObject_new(req.path, fso))]
  IN prep_device_create_response(c2, req, "STATUS_SUCCESS", file_id)

tdp_sd_create(cli, req, file_type) ==
  LET c1 == SendTdp(cli, "create",
                    [completion_id |-> req.completion_id, directory_id |-> req.device_id,
                     file_type |-> file_type, path |-> req.path])
  IN Ok(Register(c1, "create", req.completion_id, [op |-> "tdp_sd_create", rdp_req |-> req]), <<>>)

\* the closure of tdp_sd_create without its check of err_code
tdp_sd_create_handler_unchecked(cli, req, res) ==
  open_file(cli, req, res.fso)

\* the closure registered by tdp_sd_create
tdp_sd_create_handler(cli, req, res) ==
  IF res.err_code # "Nil"
  THEN prep_device_create_response(cli, req, "STATUS_UNSUCCESSFUL", 0)
  ELSE open_file(cli, req, res.fso)

tdp_sd_overwrite(cli, req) ==
  LET c1 == SendTdp(cli, "delete",
                    [completion_id |-> req.completion_id, directory_id |-> req.device_id,
                     path |-> req.path])
  IN Ok(Register(c1, "delete", req.completion_id, [op |-> "tdp_sd_overwrite", rdp_req |-> req]), <<>>)

\* the closure of tdp_sd_overwrite going on to create whatever the delete did
tdp_sd_overwrite_handler_unchecked(cli, req, res) ==
  tdp_sd_create(cli, req, "File")

\* the closure registered by tdp_sd_overwrite
tdp_sd_overwrite_handler(cli, req, res) ==
  IF res.err_code = "Nil"
  THEN tdp_sd_create(cli, req, "File")
  ELSE prep_device_create_response(cli, req, "STATUS_UNSUCCESSFUL", 0)

tdp_sd_delete(cli, req, file) ==
  LET c1 == SendTdp(cli, "delete",
                    [completion_id |-> req.completion_id, directory_id |-> req.device_id,
                     path |-> file.path])
  IN Ok(Register(c1, "delete", req.completion_id, [op |-> "tdp_sd_delete", rdp_req |-> req]), <<>>)

\* the closure registered by tdp_sd_delete
tdp_sd_delete_handler(cli, req, res) ==
  prep_device_close_response(cli, req,
    IF res.err_code = "Nil" THEN "STATUS_SUCCESS" ELSE "STATUS_UNSUCCESSFUL")

\* the checks on an existing target with the create_options looked at before
\* the disposition
existing_target_checks_options_first(req, res) ==
  IF res.fso.file_type = "Directory"
  THEN IF "FILE_NON_DIRECTORY_FILE" \in req.create_options THEN "STATUS_ACCESS_DENIED"
       ELSE IF req.create_disposition = FILE_CREATE THEN "STATUS_OBJECT_NAME_COLLISION"
       ELSE ""
  ELSE IF "FILE_DIRECTORY_FILE" \in req.create_options THEN "STATUS_NOT_A_DIRECTORY"
       ELSE ""

\* The checks the closure of process_irp_create makes on a target that exists
\* (err_code Nil), in the order of the code: the status of the first one that
\* applies, "" when none does.
existing_target_checks(req, res) ==
  IF res.fso.file_type = "Directory"
  THEN IF req.create_disposition = FILE_CREATE THEN "STATUS_OBJECT_NAME_COLLISION"
       ELSE IF "FILE_NON_DIRECTORY_FILE" \in req.create_options THEN "STATUS_ACCESS_DENIED"
       ELSE ""
  ELSE IF "FILE_DIRECTORY_FILE" \in req.create_options THEN "STATUS_NOT_A_DIRECTORY"
       ELSE ""

\* the closure registered by process_irp_create
process_irp_create_handler(cli, req, res) ==
  LET exists == res.err_code = "Nil"
      missing == res.err_code = "DoesNotExist"
      d == req.create_disposition
  IN
  IF res.err_code \in {"Failed", "AlreadyExists"} THEN Err(cli)
  ELSE IF exists /\ existing_target_checks(req, res) # ""
    THEN prep_device_create_response(cli, req, existing_target_checks(req, res), 0)
  ELSE IF missing /\ "FILE_DIRECTORY_FILE" \in req.create_options
    THEN IF intersects(d, BitOr(FILE_OPEN_IF, FILE_CREATE))
         THEN tdp_sd_create(cli, req, "Directory")
         ELSE prep_device_create_response(cli, req, "STATUS_NO_SUCH_FILE", 0)
  ELSE IF d = FILE_SUPERSEDE
    THEN IF exists THEN tdp_sd_overwrite(cli, req) ELSE tdp_sd_create(cli, req, "File")
  ELSE IF d = FILE_OPEN
    THEN IF exists THEN open_file(cli, req, res.fso)
         ELSE prep_device_create_response(cli, req, "STATUS_NO_SUCH_FILE", 0)
  ELSE IF d = FILE_CREATE
    THEN IF exists THEN prep_device_create_response(cli, req, "STATUS_OBJECT_NAME_COLLISION", 0)
         ELSE tdp_sd_create(cli, req, "File")
  ELSE IF d = FILE_OPEN_IF
    THEN IF exists THEN open_file(cli, req, res.fso) ELSE tdp_sd_create(cli, req, "File")
  ELSE IF d = FILE_OVERWRITE
    THEN IF exists THEN tdp_sd_overwrite(cli, req)
         ELSE prep_device_create_response(cli, req, "STATUS_NO_SUCH_FILE", 0)
  ELSE IF d = FILE_OVERWRITE_IF
    THEN IF exists THEN tdp_sd_overwrite(cli, req) ELSE tdp_sd_create(cli, req, "File")
  ELSE Err(cli)

process_irp_create(cli, req) ==
  LET c1 == SendTdp(cli, "info",
                    [completion_id |-> req.completion_id, directory_id |-> req.device_id,
                     path |-> req.path])
  IN Ok(Register(c1, "info", req.completion_id, [op |-> "process_irp_create", rdp_req |-> req]), <<>>)

\* process_irp_close looking the file up without removing it from the cache
process_irp_close_keeping(cli, req) ==
  IF req.file_id \in DOMAIN cli.file_cache
  THEN LET file == cli.file_cache[req.file_id]
       IN IF file.delete_pending
          THEN tdp_sd_delete(cli, req, file)
          ELSE prep_device_close_response(cli, req, "STATUS_SUCCESS")
  ELSE prep_device_close_response(cli, req, "STATUS_UNSUCCESSFUL")

process_irp_close(cli, req) ==
  IF req.file_id \in DOMAIN cli.file_cache
  THEN LET file == cli.file_cache[req.file_id]
           c1 == [cli EXCEPT !.file_cache = MapRemove(@, req.file_id)]
       IN IF file.delete_pending
          THEN tdp_sd_delete(c1, req, file)
          ELSE prep_device_close_response(c1, req, "STATUS_SUCCESS")
  ELSE prep_device_close_response(cli, req, "STATUS_UNSUCCESSFUL")

DeviceReadResponse_new(req, io_status, data) ==
  [rsp |-> "DeviceReadResponse", device_io_reply |-> DeviceIoResponse_new(req, io_status),
   length |-> Len(data), read_data |-> data]

prep_read_response(cli, req, io_status, data) ==
  Ok(cli, <<DeviceReadResponse_new(req, io_status, data)>>)

\* the closure registered by tdp_sd_read
tdp_sd_read_handler(cli, req, res) ==
  IF res.err_code = "Nil"
  THEN prep_read_response(cli, req, "STATUS_SUCCESS", res.read_data)
  ELSE prep_read_response(cli, req, "STATUS_UNSUCCESSFUL", <<>>)

tdp_sd_read(cli, req) ==
  IF req.file_id \in DOMAIN cli.file_cache
  THEN LET c1 == SendTdp(cli, "read",
                         [completion_id |-> req.completion_id, directory_id |-> req.device_id,
                          path |-> cli.file_cache[req.file_id].path,
                          length |-> req.length, offset |-> req.offset])
       IN Ok(Register(c1, "read", req.completion_id, [op |-> "tdp_sd_read", rdp_req |-> req]), <<>>)
  ELSE prep_read_response(cli, req, "STATUS_UNSUCCESSFUL", <<>>)

process_irp_read(cli, req) == tdp_sd_read(cli, req)

DeviceWriteResponse_new(req, io_status, length) ==
  [rsp |-> "DeviceWriteResponse", device_io_reply |-> DeviceIoResponse_new(req, io_status),
   length |-> length]

prep_write_response(cli, req, io_status, length) ==
  Ok(cli, <<DeviceWriteResponse_new(req, io_status, length)>>)

\* the closure registered by tdp_sd_write
tdp_sd_write_handler(cli, req, res) ==
  IF res.err_code = "Nil"
  THEN prep_write_response(cli, req, "STATUS_SUCCESS", res.bytes_written)
  ELSE prep_write_response(cli, req, "STATUS_UNSUCCESSFUL", 0)

tdp_sd_write(cli, req) ==
  IF req.file_id \in DOMAIN cli.file_cache
  THEN LET c1 == SendTdp(cli, "write",
                         [completion_id |-> req.completion_id, directory_id |-> req.device_id,
                          path |-> cli.file_cache[req.file_id].path,
                          offset |-> req.offset, write_data |-> req.write_data])
       IN Ok(Register(c1, "write", req.completion_id, [op |-> "tdp_sd_write", rdp_req |-> req]), <<>>)
  ELSE prep_write_response(cli, req, "STATUS_UNSUCCESSFUL", 0)

process_irp_write(cli, req) == tdp_sd_write(cli, req)

\* ---- IRP_MJ_SET_INFORMATION
ClientDriveSetInformationResponse_new(req, io_status) ==
  [rsp |-> "ClientDriveSetInformationResponse",
   device_io_reply |-> DeviceIoResponse_new(req, io_status)]

prep_set_info_response(cli, req, io_status) ==
  Ok(cli, <<ClientDriveSetInformationResponse_new(req, io_status)>>)

\* the closure registered by tdp_sd_move
tdp_sd_move_handler(cli, req, io_status, res) ==
  IF res.err_code # "Nil"
  THEN prep_set_info_response(cli, req, "STATUS_UNSUCCESSFUL")
  ELSE prep_set_info_response(cli, req, io_status)

tdp_sd_move(cli, req, rename_info, io_status) ==
  IF req.file_id \in DOMAIN cli.file_cache
  THEN LET c1 == SendTdp(cli, "move",
                         [completion_id |-> req.completion_id, directory_id |-> req.device_id,
                          original_path |-> cli.file_cache[req.file_id].path,
                          new_path |-> rename_info.file_name])
       IN Ok(Register(c1, "move", req.completion_id,
                      [op |-> "tdp_sd_move", rdp_req |-> req, io_status |-> io_status]), <<>>)
  ELSE prep_set_info_response(cli, req, "STATUS_UNSUCCESSFUL")

rename_replace_if_exists(cli, req, rename_info, io_status) ==
  tdp_sd_move(cli, req, rename_info, io_status)

\* the closure of rename_dont_replace_if_exists moving onto an existing destination
rename_dont_replace_if_exists_handler_replacing(cli, req, rename_info, io_status, res) ==
  IF res.err_code \in {"DoesNotExist", "Nil"}
  THEN tdp_sd_move(cli, req, rename_info, io_status)
  ELSE prep_set_info_response(cli, req, "STATUS_OBJECT_NAME_COLLISION")

\* the closure registered by rename_dont_replace_if_exists
rename_dont_replace_if_exists_handler(cli, req, rename_info, io_status, res) ==
  IF res.err_code = "DoesNotExist"
  THEN tdp_sd_move(cli, req, rename_info, io_status)
  ELSE prep_set_info_response(cli, req, "STATUS_OBJECT_NAME_COLLISION")

rename_dont_replace_if_exists(cli, req, rename_info, io_status) ==
  LET c1 == SendTdp(cli, "info",
                    [completion_id |-> req.completion_id, directory_id |-> req.device_id,
                     path |-> rename_info.file_name])
  IN Ok(Register(c1, "info", req.completion_id,
                 [op |-> "rename_dont_replace_if_exists", rdp_req |-> req,
                  rename_info |-> rename_info, io_status |-> io_status]), <<>>)

rename(cli, req, rename_info, io_status) ==
  IF rename_info.replace_if_exists
  THEN rename_replace_if_exists(cli, req, rename_info, io_status)
  ELSE rename_dont_replace_if_exists(cli, req, rename_info, io_status)

\* the test of the directory taking every directory for empty
DirectoryNotEmpty_never(file) == file.fso.file_type = "Directory" /\ file.fso.is_empty = 2

DirectoryNotEmpty(file) == file.fso.file_type = "Directory" /\ file.fso.is_empty = 0

process_irp_set_information(cli, req) ==
  IF req.file_id \notin DOMAIN cli.file_cache
  THEN prep_set_info_response(cli, req, "STATUS_UNSUCCESSFUL")
  ELSE
    LET file == cli.file_cache[req.file_id]
        io_status == IF DirectoryNotEmpty(file)
                     THEN "STATUS_DIRECTORY_NOT_EMPTY" ELSE "STATUS_SUCCESS"
        lvl == req.file_information_class_level
    IN IF lvl = "FileRenameInformation"
       THEN IF req.set_buffer.class = "FileRenameInformation"
            THEN rename(cli, req, req.set_buffer, io_status)
            ELSE Err(cli)
       ELSE IF lvl = "FileDispositionInformation"
       THEN IF req.set_buffer.class = "FileDispositionInformation"
            THEN LET c1 == IF ~DirectoryNotEmpty(file)
                           THEN [cli EXCEPT !.file_cache[req.file_id].delete_pending =
                                              (req.set_buffer.delete_pending = 1)]
                           ELSE cli
                 IN prep_set_info_response(c1, req, io_status)
            ELSE Err(cli)
       ELSE IF lvl \in {"FileBasicInformation", "FileEndOfFileInformation",
                        "FileAllocationInformation"}
       THEN prep_set_info_response(cli, req, io_status)
       ELSE Err(cli)

\* ---- IRP_MJ_DIRECTORY_CONTROL
\* util::unicode_size(name, false): two bytes per UTF-16 code unit, no terminator.
unicode_size(name) == 2 * Len(name)

QueryDirBaseSize(lvl) ==
  CASE lvl = "FileBothDirectoryInformation" -> 93
    [] lvl = "FileFullDirectoryInformation" -> 68
    [] lvl = "FileNamesInformation" -> 12
    [] lvl = "FileDirectoryInformation" -> 64

\* File*DirectoryInformation::from(fso) / FileNamesInformation::new(fso.name())
DirectoryInformation(lvl, fso) ==
  [class |-> lvl,
   file_name |-> fso.path,
   file_attributes |-> IF lvl = "FileNamesInformation" THEN "none"
                       ELSE IF fso.file_type = "Directory" THEN "FILE_ATTRIBUTE_DIRECTORY"
                       ELSE "FILE_ATTRIBUTE_NORMAL",
   size |-> QueryDirBaseSize(lvl) + unicode_size(fso.path)]

\* ClientDriveQueryDirectoryResponse::new and the padding byte of encode
prep_drive_query_dir_response(cli, req, io_status, buffer) ==
  IF io_status = "STATUS_SUCCESS" /\ buffer = <<>> THEN Err(cli)
  ELSE IF io_status \in {"STATUS_NOT_SUPPORTED", "STATUS_NO_MORE_FILES", "STATUS_UNSUCCESSFUL"}
          /\ buffer # <<>> THEN Err(cli)
  ELSE IF io_status \notin {"STATUS_SUCCESS", "STATUS_NOT_SUPPORTED", "STATUS_NO_MORE_FILES",
                            "STATUS_UNSUCCESSFUL"} THEN Err(cli)
  ELSE Ok(cli, << [rsp |-> "ClientDriveQueryDirectoryResponse",
                   device_io_reply |-> DeviceIoResponse_new(req, io_status),
                   length |-> IF buffer = <<>> THEN 0 ELSE buffer[1].size,
                   buffer |-> buffer,
                   padding |-> IF io_status = "STATUS_NO_MORE_FILES" THEN 1 ELSE 0] >>)

prep_file_cache_fail_drive_query_dir_response(cli, req) ==
  prep_drive_query_dir_response(cli, req, "STATUS_UNSUCCESSFUL", <<>>)

\* impl Iterator for FileCacheObject: [dir |-> the advanced object, item |-> Option]
FileCacheObject_next(dir) ==
  IF ~dir.dot_sent
  THEN [dir |-> [dir EXCEPT !.dot_sent = TRUE],
        item |-> << [last_modified |-> dir.fso.last_modified, size |-> dir.fso.size,
                     file_type |-> dir.fso.file_type, is_empty |-> 0, path |-> "."] >>]
  ELSE IF ~dir.dotdot_sent
  THEN [dir |-> [dir EXCEPT !.dotdot_sent = TRUE],
        item |-> << [last_modified |-> dir.fso.last_modified, size |-> 0,
                     file_type |-> "Directory", is_empty |-> 0, path |-> ".."] >>]
  ELSE IF dir.contents_i < Len(dir.contents)
  THEN [dir |-> [dir EXCEPT !.contents_i = @ + 1],
        item |-> << dir.contents[dir.contents_i + 1] >>]
  ELSE [dir |-> dir, item |-> <<>>]

prep_next_drive_query_dir_response(cli, req) ==
  IF req.file_id \in DOMAIN cli.file_cache
  THEN LET n == FileCacheObject_next(cli.file_cache[req.file_id])
           c1 == [cli EXCEPT !.file_cache[req.file_id] = n.dir]
       IN IF n.item # <<>>
          THEN IF req.file_info_class_lvl \in
                    {"FileBothDirectoryInformation", "FileFullDirectoryInformation",
                     "FileNamesInformation", "FileDirectoryInformation"}
               THEN prep_drive_query_dir_response(c1, req, "STATUS_SUCCESS",
                      << DirectoryInformation(req.file_info_class_lvl, n.item[1]) >>)
               ELSE Err(c1)
          ELSE prep_drive_query_dir_response(c1, req, "STATUS_NO_MORE_FILES", <<>>)
  ELSE prep_file_cache_fail_drive_query_dir_response(cli, req)

\* a continuation that takes a directory missing from the cache for one whose
\* listing is over
process_irp_directory_control_handler_lenient(cli, req, res) ==
  IF res.err_code # "Nil" THEN Err(cli)
  ELSE IF req.file_id \in DOMAIN cli.file_cache
  THEN prep_next_drive_query_dir_response(
         [cli EXCEPT !.file_cache[req.file_id].contents = res.fso_list], req)
  ELSE prep_drive_query_dir_response(cli, req, "STATUS_NO_MORE_FILES", <<>>)

\* the closure registered by process_irp_directory_control
process_irp_directory_control_handler(cli, req, res) ==
  IF res.err_code # "Nil" THEN Err(cli)
  ELSE IF req.file_id \in DOMAIN cli.file_cache
  THEN prep_next_drive_query_dir_response(
         [cli EXCEPT !.file_cache[req.file_id].contents = res.fso_list], req)
  ELSE prep_file_cache_fail_drive_query_dir_response(cli, req)

process_irp_directory_control(cli, req) ==
  IF req.minor_function = "IRP_MN_QUERY_DIRECTORY"
  THEN IF req.file_id \in DOMAIN cli.file_cache
       THEN LET dir == cli.file_cache[req.file_id]
            IN IF dir.fso.file_type # "Directory" THEN Err(cli)
               ELSE IF req.initial_query = 0
               THEN prep_next_drive_query_dir_response(cli, req)
               ELSE LET c1 == SendTdp(cli, "list",
                                      [completion_id |-> req.completion_id,
                                       directory_id |-> req.device_id, path |-> dir.path])
                    IN Ok(Register(c1, "list", req.completion_id,
                                   [op |-> "process_irp_directory_control", rdp_req |-> req]),
                          <<>>)
       ELSE prep_file_cache_fail_drive_query_dir_response(cli, req)
  ELSE IF req.minor_function = "IRP_MN_NOTIFY_CHANGE_DIRECTORY"
  THEN Ok(cli, <<>>)
  ELSE prep_drive_query_dir_response(cli, req, "STATUS_NOT_SUPPORTED", <<>>)

\* ---- IRP_MJ_QUERY_INFORMATION
\* ClientDriveQueryInformationResponse::new
prep_query_info_response(cli, req, file, io_status) ==
  IF io_status = "STATUS_UNSUCCESSFUL"
  THEN Ok(cli, << [rsp |-> "ClientDriveQueryInformationResponse",
                   device_io_reply |-> DeviceIoResponse_new(req, io_status),
                   buffer |-> <<>>] >>)
  ELSE IF file = <<>> THEN Err(cli)
  ELSE IF req.file_info_class_lvl \in
            {"FileBasicInformation", "FileStandardInformation", "FileAttributeTagInformation"}
  THEN Ok(cli, << [rsp |-> "ClientDriveQueryInformationResponse",
                   device_io_reply |-> DeviceIoResponse_new(req, io_status),
                   buffer |-> << [class |-> req.file_info_class_lvl,
                                  delete_pending |-> file[1].delete_pending,
                                  directory |-> file[1].fso.file_type # "File"] >>] >>)
  ELSE Err(cli)

process_irp_query_information(cli, req) ==
  LET f == IF req.file_id \in DOMAIN cli.file_cache
           THEN << cli.file_cache[req.file_id] >> ELSE <<>>
      code == IF f # <<>> THEN "STATUS_SUCCESS" ELSE "STATUS_UNSUCCESSFUL"
  IN prep_query_info_response(cli, req, f, code)

\* ---- IRP_MJ_QUERY_VOLUME_INFORMATION
\* ClientDriveQueryVolumeInformationResponse::new
prep_query_vol_info_response(cli, req, io_status, buffer) ==
  IF io_status = "STATUS_SUCCESS" /\ buffer = <<>> THEN Err(cli)
  ELSE IF io_status = "STATUS_UNSUCCESSFUL" /\ buffer # <<>> THEN Err(cli)
  ELSE IF io_status \notin {"STATUS_SUCCESS", "STATUS_UNSUCCESSFUL"} THEN Err(cli)
  ELSE Ok(cli, << [rsp |-> "ClientDriveQueryVolumeInformationResponse",
                   device_io_reply |-> DeviceIoResponse_new(req, io_status),
                   buffer |-> buffer] >>)

process_irp_query_volume_information(cli, req) ==
  IF req.file_id \in DOMAIN cli.file_cache
  THEN LET buffer == IF req.fs_info_class_lvl \in
                          {"FileFsVolumeInformation", "FileFsAttributeInformation",
                           "FileFsFullSizeInformation", "FileFsDeviceInformation",
                           "FileFsSizeInformation"}
                     THEN << [class |-> req.fs_info_class_lvl] >> ELSE <<>>
           io_status == IF buffer # <<>> THEN "STATUS_SUCCESS" ELSE "STATUS_UNSUCCESSFUL"
       IN prep_query_vol_info_response(cli, req, io_status, buffer)
  ELSE Err(cli)

\* ---- IRP_MJ_DEVICE_CONTROL on the drive: a no-op SUCCESS with empty output
dir_process_irp_device_control(cli, ioctl) ==
  Ok(cli, << [rsp |-> "DeviceControlResponse",
              device_io_reply |-> DeviceIoResponse_new(ioctl, "STATUS_SUCCESS"),
              output_buffer |-> <<>>] >>)

\* ---- continuations: calling the boxed FnOnce taken out of a table
CallHandler(cli, cont, res) ==
  CASE cont.op = "process_irp_create" -> process_irp_create_handler(cli, cont.rdp_req, res)
    [] cont.op = "rename_dont_replace_if_exists" ->
         rename_dont_replace_if_exists_handler(cli, cont.rdp_req, cont.rename_info,
                                               cont.io_status, res)
    [] cont.op = "tdp_sd_create" -> tdp_sd_create_handler(cli, cont.rdp_req, res)
    [] cont.op = "tdp_sd_overwrite" -> tdp_sd_overwrite_handler(cli, cont.rdp_req, res)
    [] cont.op = "tdp_sd_delete" -> tdp_sd_delete_handler(cli, cont.rdp_req, res)
    [] cont.op = "process_irp_directory_control" ->
         process_irp_directory_control_handler(cli, cont.rdp_req, res)
    [] cont.op = "tdp_sd_read" -> tdp_sd_read_handler(cli, cont.rdp_req, res)
    [] cont.op = "tdp_sd_write" -> tdp_sd_write_handler(cli, cont.rdp_req, res)
    [] cont.op = "tdp_sd_move" -> tdp_sd_move_handler(cli, cont.rdp_req, cont.io_status, res)

\* mcs.write(chan, resp) for the bytes a continuation returned: they go out as
\* returned, with neither the RDPDR shared header nor a channel PDU header.
McsWriteRaw(bytes) ==
  IF bytes = <<>> THEN <<>> ELSE << [framed |-> FALSE, payload |-> bytes] >>

\* handle_tdp_sd_<kind>_response calling the continuation without taking it out
\* of its table
handle_tdp_sd_response_keeping(cli, kind, res) ==
  IF res.completion_id \in DOMAIN cli.pending[kind]
  THEN LET r == CallHandler(cli, cli.pending[kind][res.completion_id], res)
       IN [cli |-> r.cli, res |-> r.res,
           msgs |-> IF r.res = "ok" THEN McsWriteRaw(r.bytes) ELSE <<>>]
  ELSE [cli |-> cli, res |-> "err", msgs |-> <<>>]

\* handle_tdp_sd_<kind>_response dropping, instead of refusing, a response that
\* no continuation waits for
handle_tdp_sd_response_lenient(cli, kind, res) ==
  IF res.completion_id \in DOMAIN cli.pending[kind]
  THEN LET r == CallHandler([cli EXCEPT !.pending[kind] = MapRemove(@, res.completion_id)],
                            cli.pending[kind][res.completion_id], res)
       IN [cli |-> r.cli, res |-> r.res,
           msgs |-> IF r.res = "ok" THEN McsWriteRaw(r.bytes) ELSE <<>>]
  ELSE [cli |-> cli, res |-> "ok", msgs |-> <<>>]

\* handle_tdp_sd_<kind>_response: [cli, res, msgs]
handle_tdp_sd_response(cli, kind, res) ==
  IF res.completion_id \in DOMAIN cli.pending[kind]
  THEN LET tdp_resp_handler == cli.pending[kind][res.completion_id]
           c1 == [cli EXCEPT !.pending[kind] = MapRemove(@, res.completion_id)]
           r == CallHandler(c1, tdp_resp_handler, res)
       IN [cli |-> r.cli, res |-> r.res,
           msgs |-> IF r.res = "ok" THEN McsWriteRaw(r.bytes) ELSE <<>>]
  ELSE [cli |-> cli, res |-> "err", msgs |-> <<>>]

\* ----------------------------------------------------------- rdpdr::Client
\* add_headers_and_chunkify: the payload behind the RDPDR shared header and a
\* channel PDU header; a payload of this size is one chunk.
add_headers_and_chunkify(packet_id, payload) ==
  << [framed |-> TRUE, packet_id |-> packet_id, payload |-> payload] >>

Contains(seq, x) == \E i \in 1..Len(seq) : seq[i] = x

\* push_active_device_id: [ok, ids]
push_active_device_id(ids, device_id) ==
  IF Contains(ids, device_id)
  THEN [ok |-> FALSE, ids |-> ids]
  ELSE [ok |-> TRUE, ids |-> Append(ids, device_id)]

\* get_scard_device_id: [ok, id]
get_scard_device_id(ids) ==
  IF ids # <<>> THEN [ok |-> TRUE, id |-> ids[1]] ELSE [ok |-> FALSE, id |-> 0]

\* rdpdr::Client::process_irp_device_control; the smart-card client is outside
\* this model, irp.scard_ok is the outcome of scard.process_irp_device_control.
process_irp_device_control(cli, ids, irp) ==
  LET sc == get_scard_device_id(ids)
      is_smart_card_op == irp.device_id = sc.id
  IN IF ~sc.ok THEN Err(cli)
     ELSE IF ~is_smart_card_op /\ ~cli.allow_directory_sharing THEN Err(cli)
     ELSE IF is_smart_card_op
     THEN IF irp.scard_ok
          THEN Ok(cli, << [rsp |-> "scard::DeviceControlResponse",
                           device_io_reply |-> DeviceIoResponse_new(irp, "STATUS_SUCCESS")] >>)
          ELSE Err(cli)
     ELSE dir_process_irp_device_control(cli, irp)

\* the match on major_function in handle_device_io_request, and the framing of
\* what the arm returned: [cli, res, msgs]
dispatch_major_function(cli, ids, irp) ==
  LET major_function == irp.major_function
      resp ==
        CASE major_function = "IRP_MJ_DEVICE_CONTROL" -> process_irp_device_control(cli, ids, irp)
          [] major_function = "IRP_MJ_CREATE" -> process_irp_create(cli, irp)
          [] major_function = "IRP_MJ_QUERY_INFORMATION" ->
               process_irp_query_information(cli, irp)
          [] major_function = "IRP_MJ_CLOSE" -> process_irp_close(cli, irp)
          [] major_function = "IRP_MJ_DIRECTORY_CONTROL" ->
               process_irp_directory_control(cli, irp)
          [] major_function = "IRP_MJ_QUERY_VOLUME_INFORMATION" ->
               process_irp_query_volume_information(cli, irp)
          [] major_function = "IRP_MJ_READ" -> process_irp_read(cli, irp)
          [] major_function = "IRP_MJ_WRITE" -> process_irp_write(cli, irp)
          [] major_function = "IRP_MJ_SET_INFORMATION" -> process_irp_set_information(cli, irp)
          [] OTHER -> Err(cli)
  IN [cli |-> resp.cli, res |-> resp.res,
      msgs |-> IF resp.res = "ok"
               THEN add_headers_and_chunkify("PAKID_CORE_DEVICE_IOCOMPLETION", resp.bytes)
               ELSE <<>>]

\* handle_device_io_request without the check of allow_directory_sharing
handle_device_io_request_ungated(cli, ids, irp) ==
  dispatch_major_function(cli, ids, irp)

\* handle_device_io_request: [cli, res, msgs]
handle_device_io_request(cli, ids, irp) ==
  IF irp.major_function # "IRP_MJ_DEVICE_CONTROL" /\ ~cli.allow_directory_sharing
  THEN [cli |-> cli, res |-> "err", msgs |-> <<>>]
  ELSE dispatch_major_function(cli, ids, irp)

\* handle_client_id_confirm announcing the smart card at every CLIENTID_CONFIRM
handle_client_id_confirm_always(ids) ==
  [ids |-> Append(ids, SCARD_DEVICE_ID),
   msgs |-> add_headers_and_chunkify("PAKID_CORE_DEVICELIST_ANNOUNCE",
              << [device_count |-> 1, device_list |-> << SCARD_DEVICE_ID >>] >>)]

\* handle_client_id_confirm: [ids, msgs]
handle_client_id_confirm(ids) ==
  IF ~Contains(ids, SCARD_DEVICE_ID)
  THEN [ids |-> push_active_device_id(ids, SCARD_DEVICE_ID).ids,
        msgs |-> add_headers_and_chunkify("PAKID_CORE_DEVICELIST_ANNOUNCE",
                   << [device_count |-> 1, device_list |-> << SCARD_DEVICE_ID >>] >>)]
  ELSE [ids |-> ids,
        msgs |-> add_headers_and_chunkify("PAKID_CORE_DEVICELIST_ANNOUNCE",
                   << [device_count |-> 0, device_list |-> << >>] >>)]

\* write_client_device_list_announce: [ok, ids, msgs]
write_client_device_list_announce(ids, device_id) ==
  LET p == push_active_device_id(ids, device_id)
  IN IF ~p.ok THEN [ok |-> FALSE, ids |-> ids, msgs |-> <<>>]
     ELSE [ok |-> TRUE, ids |-> p.ids,
           msgs |-> add_headers_and_chunkify("PAKID_CORE_DEVICELIST_ANNOUNCE",
                      << [device_count |-> 1, device_list |-> << device_id >>] >>)]

\* ---------------------------------------------------------- cliprdr::Client
\* A Vec<u8> is a sequence of bytes; a reader (Cursor) over it is the sequence
\* of the bytes not yet read.  A decoder returns [ok, .., rest].
Min(a, b) == IF a < b THEN a ELSE b

Drop(bytes, n) == SubSeq(bytes, n + 1, Len(bytes))

\* byteorder: write_u16 / write_u32 / read_u16 / read_u32 ::<LittleEndian>
write_u16(n) == << n % 256, (n \div 256) % 256 >>

write_u32(n) == << n % 256, (n \div 256) % 256, (n \div 65536) % 256, (n \div 16777216) % 256 >>

read_u16(bytes) == bytes[1] + 256 * bytes[2]

read_u32(bytes) == bytes[1] + 256 * bytes[2] + 65536 * bytes[3] + 16777216 * bytes[4]

\* bitflags: bits() of a set of flags, and the flags of a value.
bits(values, flags) ==
  LET RECURSIVE Sum(_)
      Sum(fs) == IF fs = {} THEN 0
                 ELSE LET f == CHOOSE f \in fs : TRUE IN values[f] + Sum(fs \ {f})
  IN Sum(flags)

HasBit(n, bit) == (n \div bit) % 2 = 1

FlagsOf(values, n) == {f \in DOMAIN values : HasBit(n, values[f])}

\* vchan::ChannelPDUFlags
ChannelPDUFlags ==
  [CHANNEL_FLAG_FIRST |-> 1, CHANNEL_FLAG_LAST |-> 2, CHANNEL_FLAG_SHOW_PROTOCOL |-> 16]

\* vchan::ChannelPDUHeader::encode: length and flags, a u32 each
ChannelPDUHeader_encode(length, flags) ==
  write_u32(length) \o write_u32(bits(ChannelPDUFlags, flags))

\* vchan::ChannelPDUHeader::decode
ChannelPDUHeader_decode(payload) ==
  IF Len(payload) < 8
  THEN [ok |-> FALSE, length |-> 0, flags |-> {}, rest |-> payload]
  ELSE [ok |-> TRUE, length |-> read_u32(payload),
        flags |-> FlagsOf(ChannelPDUFlags, read_u32(Drop(payload, 4))),
        rest |-> Drop(payload, 8)]

ClipboardPDUType ==
  [CB_MONITOR_READY |-> 1, CB_FORMAT_LIST |-> 2, CB_FORMAT_LIST_RESPONSE |-> 3,
   CB_FORMAT_DATA_REQUEST |-> 4, CB_FORMAT_DATA_RESPONSE |-> 5, CB_TEMP_DIRECTORY |-> 6,
   CB_CLIP_CAPS |-> 7, CB_FILECONTENTS_REQUEST |-> 8, CB_FILECONTENTS_RESPONSE |-> 9,
   CB_LOCK_CLIPDATA |-> 10, CB_UNLOCK_CLIPDATA |-> 11]

ClipboardHeaderFlags == [CB_RESPONSE_OK |-> 1, CB_RESPONSE_FAIL |-> 2, CB_ASCII_NAMES |-> 4]

ClipboardGeneralCapabilityFlags ==
  [CB_USE_LONG_FORMAT_NAMES |-> 2, CB_STREAM_FILECLIP_ENABLED |-> 4,
   CB_FILECLIP_NO_FILE_PATHS |-> 8, CB_CAN_LOCK_CLIPDATA |-> 16,
   CB_HUGE_FILE_SUPPORT_ENABLED |-> 32]

\* bitflags from_bits: None when a bit is set that no flag has
from_bits_ok(values, n) == bits(values, FlagsOf(values, n)) = n

ClipboardPDUHeader_new(msg_type, msg_flags, data_len) ==
  [msg_type |-> msg_type, msg_flags |-> msg_flags, data_len |-> data_len]

ClipboardPDUHeader_encode(h) ==
  write_u16(ClipboardPDUType[h.msg_type])
    \o write_u16(bits(ClipboardHeaderFlags, h.msg_flags))
    \o write_u32(h.data_len)

NoHeader == ClipboardPDUHeader_new("CB_MONITOR_READY", {}, 0)

ClipboardPDUHeader_decode(payload) ==
  IF Len(payload) < 8
  THEN [ok |-> FALSE, header |-> NoHeader, rest |-> payload]
  ELSE LET typ == read_u16(payload)
           flags == read_u16(Drop(payload, 2))
       IN IF \/ \A t \in DOMAIN ClipboardPDUType : ClipboardPDUType[t] # typ
             \/ ~from_bits_ok(ClipboardHeaderFlags, flags)
          THEN [ok |-> FALSE, header |-> NoHeader, rest |-> payload]
          ELSE [ok |-> TRUE,
                header |-> ClipboardPDUHeader_new(
                             CHOOSE t \in DOMAIN ClipboardPDUType : ClipboardPDUType[t] = typ,
                             FlagsOf(ClipboardHeaderFlags, flags),
                             read_u32(Drop(payload, 4))),
                rest |-> Drop(payload, 8)]

\* the msg_flags encode_message gives a message of this type
encode_msg_flags(msg_type) ==
  IF msg_type \in {"CB_FORMAT_DATA_RESPONSE", "CB_FORMAT_LIST_RESPONSE"}
  THEN {"CB_RESPONSE_OK"}
  ELSE IF msg_type = "CB_FILECONTENTS_RESPONSE" THEN {"CB_RESPONSE_FAIL"}
  ELSE {}

\* the channel flags of a chunk all of whose successors are FIRST chunks too
channel_flags_every_first(msg_type, first, leftover) ==
  (IF msg_type \in {"CB_FORMAT_LIST", "CB_CLIP_CAPS", "CB_FORMAT_DATA_REQUEST",
                    "CB_FORMAT_DATA_RESPONSE"}
   THEN {"CHANNEL_FLAG_SHOW_PROTOCOL"} ELSE {})
  \cup {"CHANNEL_FLAG_FIRST"}
  \cup (IF leftover = <<>> THEN {"CHANNEL_FLAG_LAST"} ELSE {})

\* the channel flags of one chunk in the loop of encode_message
channel_flags(msg_type, first, leftover) ==
  (IF msg_type \in {"CB_FORMAT_LIST", "CB_CLIP_CAPS", "CB_FORMAT_DATA_REQUEST",
                    "CB_FORMAT_DATA_RESPONSE"}
   THEN {"CHANNEL_FLAG_SHOW_PROTOCOL"} ELSE {})
  \cup (IF first THEN {"CHANNEL_FLAG_FIRST"} ELSE {})
  \cup (IF leftover = <<>> THEN {"CHANNEL_FLAG_LAST"} ELSE {})

\* the while loop of encode_message
RECURSIVE encode_chunks(_, _, _, _)
encode_chunks(msg_type, total_len, inner, first) ==
  IF inner = <<>> THEN <<>>
  ELSE LET i == Min(Len(inner), CHANNEL_CHUNK_LEGNTH)
           leftover == Drop(inner, i)
           outer == ChannelPDUHeader_encode(total_len, channel_flags(msg_type, first, leftover))
                      \o SubSeq(inner, 1, i)
       IN << outer >> \o encode_chunks(msg_type, total_len, leftover, FALSE)

encode_message(msg_type, payload) ==
  LET inner == ClipboardPDUHeader_encode(
                 ClipboardPDUHeader_new(msg_type, encode_msg_flags(msg_type), Len(payload)))
               \o payload
  IN encode_chunks(msg_type, Len(inner), inner, TRUE)

CB_CAPS_VERSION_2 == 2

\* ClipboardCapabilitiesPDU::encode; general is <<>> (None) or << set >>
ClipboardCapabilitiesPDU_encode(general) ==
  write_u16(Len(general)) \o write_u16(0)
    \o (IF general = <<>> THEN <<>>
        ELSE write_u16(1) \o write_u16(12) \o write_u32(CB_CAPS_VERSION_2)
               \o write_u32(bits(ClipboardGeneralCapabilityFlags, general[1].flags)))

\* GeneralClipboardCapabilitySet::decode: whether it returns Ok
GeneralClipboardCapabilitySet_decode_ok(payload) ==
  /\ Len(payload) >= 12
  /\ read_u16(payload) = 1
  /\ read_u16(Drop(payload, 2)) = 12
  /\ from_bits_ok(ClipboardGeneralCapabilityFlags, read_u32(Drop(payload, 8)))

\* ClipboardCapabilitiesPDU::decode: whether it returns Ok
ClipboardCapabilitiesPDU_decode_ok(payload) ==
  /\ Len(payload) >= 4
  /\ \/ read_u16(payload) = 0
     \/ read_u16(payload) = 1 /\ GeneralClipboardCapabilitySet_decode_ok(Drop(payload, 4))

\* LongFormatName::encode of LongFormatName::id(id)
LongFormatName_id_encode(id) == write_u32(id) \o write_u16(0)

\* ClipboardFormatId::CF_OEMTEXT
CF_OEMTEXT == 7

\* CLIPBOARD_FORMAT_NAME_FILE_LIST, "FileGroupDescriptorW", as UTF-16 code units
CLIPBOARD_FORMAT_NAME_FILE_LIST ==
  << 70, 105, 108, 101, 71, 114, 111, 117, 112, 68,
     101, 115, 99, 114, 105, 112, 116, 111, 114, 87 >>

\* str::encode_utf16 written with write_u16, for a string of code units
RECURSIVE encode_utf16(_)
encode_utf16(name) ==
  IF name = <<>> THEN <<>> ELSE write_u16(Head(name)) \o encode_utf16(Tail(name))

\* LongFormatName::encode; format_name is <<>> (None) or << name >>
LongFormatName_encode(n) ==
  write_u32(n.format_id)
    \o (IF n.format_name = <<>> THEN write_u16(0)
        ELSE encode_utf16(n.format_name[1]) \o write_u16(0))

\* FormatListPDU::encode
RECURSIVE FormatListPDU_encode(_)
FormatListPDU_encode(format_names) ==
  IF format_names = <<>> THEN <<>>
  ELSE LongFormatName_encode(Head(format_names)) \o FormatListPDU_encode(Tail(format_names))

\* read_unicode_to_string on the bytes not yet read (the position is even at
\* each call, so that chunks_exact(2) pairs the bytes from there on): the code
\* units before the first 00 00 pair, and the reader after that pair; without
\* such a pair every whole pair is consumed and a last odd byte is left
RECURSIVE read_unicode_to_string(_)
read_unicode_to_string(data) ==
  IF Len(data) < 2 THEN [string |-> <<>>, rest |-> data]
  ELSE IF data[1] = 0 /\ data[2] = 0 THEN [string |-> <<>>, rest |-> Drop(data, 2)]
  ELSE LET r == read_unicode_to_string(Drop(data, 2))
       IN [string |-> << read_u16(data) >> \o r.string, rest |-> r.rest]

\* LongFormatName::decode
LongFormatName_decode(payload) ==
  IF Len(payload) < 4
  THEN [ok |-> FALSE, name |-> [format_id |-> 0, format_name |-> <<>>], rest |-> payload]
  ELSE LET name == read_unicode_to_string(Drop(payload, 4))
       IN [ok |-> TRUE,
           name |-> [format_id |-> read_u32(payload),
                     format_name |-> IF name.string = <<>> THEN <<>> ELSE << name.string >>],
           rest |-> name.rest]

\* FormatListPDU::<LongFormatName>::decode: read format names while fewer than
\* length bytes have been read; [ok, format_names]
RECURSIVE FormatListPDU_decode_from(_, _, _)
FormatListPDU_decode_from(payload, length, read) ==
  IF read >= length THEN [ok |-> TRUE, format_names |-> <<>>]
  ELSE LET n == LongFormatName_decode(payload)
       IN IF ~n.ok THEN [ok |-> FALSE, format_names |-> <<>>]
          ELSE LET r == FormatListPDU_decode_from(n.rest, length,
                                                  read + Len(payload) - Len(n.rest))
               IN IF r.ok THEN [ok |-> TRUE, format_names |-> << n.name >> \o r.format_names]
                  ELSE r

FormatListPDU_decode(payload, length) == FormatListPDU_decode_from(payload, length, 0)

\* FormatDataRequestPDU::for_id(format_id).encode()
FormatDataRequestPDU_encode(format_id) == write_u32(format_id)

\* FormatDataRequestPDU::decode
FormatDataRequestPDU_decode(payload) ==
  IF Len(payload) < 4 THEN [ok |-> FALSE, format_id |-> 0]
  ELSE [ok |-> TRUE, format_id |-> read_u32(payload)]

\* FormatDataResponsePDU::decode: read_exact of length bytes
FormatDataResponsePDU_decode(payload, length) ==
  IF Len(payload) < length THEN [ok |-> FALSE, data |-> <<>>]
  ELSE [ok |-> TRUE, data |-> SubSeq(payload, 1, length)]

\* the handlers of handle_message: [res, msgs], msgs the chunks to write
handle_server_caps(payload) ==
  IF ClipboardCapabilitiesPDU_decode_ok(payload)
  THEN [res |-> "ok", msgs |-> <<>>]
  ELSE [res |-> "err", msgs |-> <<>>]

\* handle_monitor_ready answering with the format list only
handle_monitor_ready_without_caps ==
  [res |-> "ok", msgs |-> encode_message("CB_FORMAT_LIST", LongFormatName_id_encode(0))]

handle_monitor_ready ==
  [res |-> "ok",
   msgs |-> encode_message("CB_CLIP_CAPS",
              ClipboardCapabilitiesPDU_encode(
                << [version |-> CB_CAPS_VERSION_2,
                    flags |-> {"CB_USE_LONG_FORMAT_NAMES", "CB_STREAM_FILECLIP_ENABLED"}] >>))
            \o encode_message("CB_FORMAT_LIST", LongFormatName_id_encode(0))]

\* the for loop of handle_format_list requesting CF_OEMTEXT only
RECURSIVE request_formats_text_only(_, _)
request_formats_text_only(format_names, is_expecting_file_list) ==
  IF format_names = <<>>
  THEN [msgs |-> <<>>, is_expecting_file_list |-> is_expecting_file_list]
  ELSE LET name == Head(format_names)
           r == request_formats_text_only(Tail(format_names), FALSE)
       IN IF name.format_id = CF_OEMTEXT
          THEN [r EXCEPT !.msgs = encode_message("CB_FORMAT_DATA_REQUEST",
                                                 FormatDataRequestPDU_encode(name.format_id))
                                    \o @]
          ELSE request_formats_text_only(Tail(format_names), is_expecting_file_list)

\* the for loop of handle_format_list over the format names left:
\* [msgs, is_expecting_file_list]
RECURSIVE request_formats(_, _)
request_formats(format_names, is_expecting_file_list) ==
  IF format_names = <<>>
  THEN [msgs |-> <<>>, is_expecting_file_list |-> is_expecting_file_list]
  ELSE LET name == Head(format_names)
           request_data == encode_message("CB_FORMAT_DATA_REQUEST",
                                          FormatDataRequestPDU_encode(name.format_id))
       IN IF name.format_id = CF_OEMTEXT
          THEN LET r == request_formats(Tail(format_names), FALSE)
               IN [r EXCEPT !.msgs = request_data \o @]
          ELSE IF name.format_name = << CLIPBOARD_FORMAT_NAME_FILE_LIST >>
          THEN LET r == request_formats(Tail(format_names), TRUE)
               IN [r EXCEPT !.msgs = request_data \o @]
          ELSE request_formats(Tail(format_names), is_expecting_file_list)

\* handle_format_list leaving is_expecting_file_list as it was
handle_format_list_forgetting(file_list_manager, payload, length) ==
  LET list == FormatListPDU_decode(payload, length)
      r == request_formats(list.format_names, file_list_manager.is_expecting_file_list)
  IN IF ~list.ok
     THEN [res |-> "err", msgs |-> <<>>, file_list_manager |-> file_list_manager]
     ELSE [res |-> "ok",
           msgs |-> encode_message("CB_FORMAT_LIST_RESPONSE", <<>>) \o r.msgs,
           file_list_manager |-> file_list_manager]

\* Client::handle_format_list: [res, msgs, file_list_manager]
handle_format_list(file_list_manager, payload, length) ==
  LET list == FormatListPDU_decode(payload, length)
      r == request_formats(list.format_names, file_list_manager.is_expecting_file_list)
  IN IF ~list.ok
     THEN [res |-> "err", msgs |-> <<>>, file_list_manager |-> file_list_manager]
     ELSE [res |-> "ok",
           msgs |-> encode_message("CB_FORMAT_LIST_RESPONSE", <<>>) \o r.msgs,
           file_list_manager |-> [file_list_manager EXCEPT
                                    !.is_expecting_file_list = r.is_expecting_file_list]]

\* handle_format_data_request answering a format it has no data for with no data
handle_format_data_request_empty(clipboard, payload) ==
  LET req == FormatDataRequestPDU_decode(payload)
  IN IF ~req.ok THEN [res |-> "err", msgs |-> <<>>]
     ELSE [res |-> "ok",
           msgs |-> encode_message("CB_FORMAT_DATA_RESPONSE",
                                   IF req.format_id \in DOMAIN clipboard
                                   THEN clipboard[req.format_id] ELSE <<>>)]

\* Client::handle_format_data_request: [res, msgs]
handle_format_data_request(clipboard, payload) ==
  LET req == FormatDataRequestPDU_decode(payload)
  IN IF ~req.ok \/ req.format_id \notin DOMAIN clipboard
     THEN [res |-> "err", msgs |-> <<>>]
     ELSE [res |-> "ok", msgs |-> encode_message("CB_FORMAT_DATA_RESPONSE",
                                                 clipboard[req.format_id])]

FileDescriptorFlags ==
  [FD_ATTRIBUTES |-> 4, FD_FILESIZE |-> 64, FD_WRITESTIME |-> 32, FD_SHOWPROGRESSUI |-> 16384]

FileAttributesFlags ==
  [FILE_ATTRIBUTE_READONLY |-> 1, FILE_ATTRIBUTE_HIDDEN |-> 2, FILE_ATTRIBUTE_SYSTEM |-> 4,
   FILE_ATTRIBUTE_DIRECTORY |-> 16, FILE_ATTRIBUTE_ARCHIVE |-> 32,
   FILE_ATTRIBUTE_NORMAL |-> 128]

\* one file descriptor of handle_file_list, read at the start of data: the
\* 64-bit values are kept as their bytes and file_size as << high, low >>
FileDescriptor_read(data) ==
  [flags |-> FlagsOf(FileDescriptorFlags, read_u32(data)),
   file_attributes |-> FlagsOf(FileAttributesFlags, read_u32(Drop(data, 36))),
   last_write_time |-> SubSeq(data, 57, 64),
   file_size |-> << read_u32(Drop(data, 64)), read_u32(Drop(data, 68)) >>,
   file_name |-> read_unicode_to_string(Drop(data, 72)).string]

\* the for loop of handle_file_list, n descriptors left to read from data:
\* [ok, file_list]; the descriptors read before a failing read stay pushed
RECURSIVE read_file_descriptors(_, _, _)
read_file_descriptors(file_list, data, n) ==
  IF n = 0 THEN [ok |-> TRUE, file_list |-> file_list]
  ELSE IF Len(data) < 72 THEN [ok |-> FALSE, file_list |-> file_list]
  ELSE read_file_descriptors(Append(file_list, FileDescriptor_read(data)),
                             Drop(data, 592), n - 1)

\* handle_file_list starting a new file_list at every file list
handle_file_list_replacing(file_list, data) ==
  IF Len(data) < 4 THEN [ok |-> FALSE, file_list |-> file_list]
  ELSE read_file_descriptors(<<>>, Drop(data, 4), read_u32(data))

\* Client::handle_file_list: [ok, file_list]; the Vec it returns is empty
handle_file_list(file_list, data) ==
  IF Len(data) < 4 THEN [ok |-> FALSE, file_list |-> file_list]
  ELSE read_file_descriptors(file_list, Drop(data, 4), read_u32(data))

\* the text handed to on_remote_copy without its last byte
trim_always(text, data_len) == SubSeq(text, 1, data_len - 1)

\* the null terminator trimmed, if it exists: truncate(data_len - 1)
trim_null_terminator(text, data_len) ==
  IF text # <<>> /\ text[Len(text)] = 0
  THEN SubSeq(text, 1, Min(Len(text), data_len - 1))
  ELSE text

\* Client::handle_format_data_response: [res, msgs, file_list_manager, copied],
\* copied the arguments of the calls of on_remote_copy
handle_format_data_response(file_list_manager, payload, length) ==
  LET resp == FormatDataResponsePDU_decode(payload, length)
      data_len == Len(resp.data)
      files == handle_file_list(file_list_manager.file_list, resp.data)
  IN IF ~resp.ok
     THEN [res |-> "err", msgs |-> <<>>, file_list_manager |-> file_list_manager,
           copied |-> <<>>]
     ELSE IF file_list_manager.is_expecting_file_list
     THEN [res |-> IF files.ok THEN "ok" ELSE "err", msgs |-> <<>>,
           file_list_manager |-> [file_list_manager EXCEPT !.file_list = files.file_list],
           copied |-> IF files.ok THEN << trim_null_terminator(<<>>, data_len) >> ELSE <<>>]
     ELSE [res |-> "ok", msgs |-> <<>>, file_list_manager |-> file_list_manager,
           copied |-> << trim_null_terminator(resp.data, data_len) >>]

\* the message types a peer sends: all of them
HandledTypes == DOMAIN ClipboardPDUType

\* Client::handle_message on self = [clipboard, pending, file_list_manager]:
\* [res, msgs, file_list_manager, copied]; the handlers leave the clipboard alone
handle_message(self, header, payload) ==
  LET same(r) == [res |-> r.res, msgs |-> r.msgs,
                  file_list_manager |-> self.file_list_manager, copied |-> <<>>]
      nothing == [res |-> "ok", msgs |-> <<>>]
  IN CASE header.msg_type = "CB_CLIP_CAPS" -> same(handle_server_caps(payload))
       [] header.msg_type = "CB_MONITOR_READY" -> same(handle_monitor_ready)
       [] header.msg_type = "CB_FORMAT_LIST" ->
            LET r == handle_format_list(self.file_list_manager, payload, header.data_len)
            IN [res |-> r.res, msgs |-> r.msgs, file_list_manager |-> r.file_list_manager,
                copied |-> <<>>]
       [] header.msg_type = "CB_FORMAT_LIST_RESPONSE" -> same(nothing)
       [] header.msg_type = "CB_FORMAT_DATA_REQUEST" ->
            same(handle_format_data_request(self.clipboard, payload))
       [] header.msg_type = "CB_FORMAT_DATA_RESPONSE" ->
            IF "CB_RESPONSE_OK" \in header.msg_flags
            THEN handle_format_data_response(self.file_list_manager, payload, header.data_len)
            ELSE same(nothing)
       [] OTHER -> same(nothing)

\* PendingData; clipboard_header is <<>> (None) or << header >>
PendingData_new == [data |-> <<>>, total_length |-> 0, clipboard_header |-> <<>>]

\* PendingData::reset keeping the bytes read so far
PendingData_reset_keeping(pending, length) ==
  [data |-> pending.data, total_length |-> length, clipboard_header |-> <<>>]

PendingData_reset(pending, length) ==
  [data |-> <<>>, total_length |-> length, clipboard_header |-> <<>>]

\* payload.read_to_end(&mut self.pending.data) forgetting the bytes read before
read_to_end_overwriting(data, rest) == rest

\* payload.read_to_end(&mut self.pending.data)
read_to_end(data, rest) == data \o rest

\* Client::read on self = [clipboard, pending, file_list_manager]:
\* [pending, file_list_manager, res, handled, msgs, copied]; handled is <<>> or
\* the << [header, payload] >> handle_message was called with
Client_read(self, payload) ==
  LET pending == self.pending
      pdu_header == ChannelPDUHeader_decode(payload)
      first == "CHANNEL_FLAG_FIRST" \in pdu_header.flags
      reset == PendingData_reset(pending, pdu_header.length)
      hdr == ClipboardPDUHeader_decode(pdu_header.rest)
      p1 == IF first THEN [reset EXCEPT !.clipboard_header = << hdr.header >>] ELSE pending
      p2 == [p1 EXCEPT !.data = read_to_end(@, IF first THEN hdr.rest ELSE pdu_header.rest)]
      returns(p, res) == [pending |-> p, file_list_manager |-> self.file_list_manager,
                          res |-> res, handled |-> <<>>, msgs |-> <<>>, copied |-> <<>>]
  IN IF ~pdu_header.ok THEN returns(pending, "err")
     ELSE IF first /\ ~hdr.ok THEN returns(reset, "err")
     ELSE IF "CHANNEL_FLAG_LAST" \in pdu_header.flags /\ p2.clipboard_header # <<>>
     THEN LET header == p2.clipboard_header[1]
              r == handle_message(self, header, p2.data)
          IN [pending |-> [p2 EXCEPT !.data = <<>>, !.clipboard_header = <<>>],
              file_list_manager |-> r.file_list_manager,
              res |-> r.res,
              handled |-> << [header |-> header, payload |-> p2.data] >>,
              msgs |-> IF r.res = "ok" THEN r.msgs ELSE <<>>,
              copied |-> r.copied]
     ELSE returns(p2, "ok")

\* the for loop of update_clipboard with a CR pushed before every LF
RECURSIVE lf_to_crlf_always(_, _)
lf_to_crlf_always(data, i) ==
  IF i > Len(data) THEN <<>>
  ELSE (IF data[i] = 10 THEN << 13, 10 >> ELSE << data[i] >>) \o lf_to_crlf_always(data, i + 1)

\* the for loop of update_clipboard from index i on (1-based): a CR is pushed
\* before an LF that is the first byte or whose previous byte is not CR
RECURSIVE lf_to_crlf(_, _)
lf_to_crlf(data, i) ==
  IF i > Len(data) THEN <<>>
  ELSE (IF data[i] = 10
        THEN (IF i = 1 \/ data[i - 1] # 13 THEN << 13 >> ELSE <<>>) \o << 10 >>
        ELSE << data[i] >>)
       \o lf_to_crlf(data, i + 1)

\* a null terminator pushed whatever the last byte is
null_terminated_always(converted) == Append(converted, 0)

\* "Windows requires a null terminator, so add one if necessary"
null_terminated(converted) ==
  IF converted # <<>> /\ converted[Len(converted)] # 0 THEN Append(converted, 0)
  ELSE converted

\* HashMap::insert
insert(map, key, value) == [k \in DOMAIN map \cup {key} |-> IF k = key THEN value ELSE map[k]]

\* Client::update_clipboard: [clipboard, msgs]
update_clipboard(clipboard, data) ==
  [clipboard |-> insert(clipboard, CF_OEMTEXT, null_terminated(lf_to_crlf(data, 1))),
   msgs |-> encode_message("CB_FORMAT_LIST",
                           FormatListPDU_encode(<< [format_id |-> CF_OEMTEXT,
                                                    format_name |-> <<>>] >>))]

\* ------------------------------------------------------------------- state
VARIABLES
  allow_directory_sharing,  \* dir::Client.allow_directory_sharing
  active_device_ids,        \* rdpdr::Client.active_device_ids
  file_cache,               \* dir::Client.file_cache: file_id -> FileCacheObject
  next_file_id,             \* dir::Client.next_file_id
  pending,                  \* the seven pending_sd_*_resp_handlers, by kind
  tdp,                      \* TDP requests handed to the host by the last step
  out,                      \* messages written to the rdpdr channel by the last step
  result,                   \* "ok", or "err" / "panic": the session has ended
  last,                     \* the input the last step handled
  awaiting,                 \* completion ids of the IRPs in a TDP round trip, oldest first
  nround,                   \* IRPs that started a TDP round trip
  listed,                   \* file_id -> QUERY_DIRECTORY replies written since a List
                            \* response last populated its contents
  cb_pending,               \* cliprdr::Client.pending
  cb_out,                   \* chunks written to the cliprdr channel by the last step
  cb_result,                \* "ok", or "err" / "panic": Client::read has failed
  cb_last,                  \* what the last step of the clipboard client handled
  cb_peer,                  \* the peer: the message it encoded, the chunks still to
                            \* send, how many it has sent, the types dispatched so far
  cb_pdu,                   \* the chunks of the latest logical PDU, from its FIRST chunk on
  cb_clipboard,             \* cliprdr::Client.clipboard: format id -> bytes
  cb_file_list_manager,     \* cliprdr::Client.file_list_manager
  cb_copied,                \* the arguments on_remote_copy was called with by the last step
  cb_updates,               \* calls of update_clipboard so far
  cb_requested              \* the format ids of the FORMAT_DATA_REQUESTs the client has
                            \* written and the peer has not answered yet, oldest first

vars == << allow_directory_sharing, active_device_ids, file_cache, next_file_id, pending,
           tdp, out, result, last, awaiting, nround, listed,
           cb_pending, cb_out, cb_result, cb_last, cb_peer, cb_pdu,
           cb_clipboard, cb_file_list_manager, cb_copied, cb_updates, cb_requested >>

rdpdr_vars == << allow_directory_sharing, active_device_ids, file_cache, next_file_id, pending,
                 tdp, out, result, last, awaiting, nround, listed >>

cliprdr_vars == << cb_pending, cb_out, cb_result, cb_last, cb_peer, cb_pdu,
                   cb_clipboard, cb_file_list_manager, cb_copied, cb_updates, cb_requested >>

\* cliprdr::Client::new, and a peer that has sent nothing
ClipNew ==
  /\ cb_pending = PendingData_new
  /\ cb_out = <<>>
  /\ cb_result = "ok"
  /\ cb_last = [ev |-> "new"]
  /\ cb_peer = [msg |-> <<>>, feed |-> <<>>, sent |-> 0, received |-> {}]
  /\ cb_pdu = <<>>
  /\ cb_clipboard = << >>
  /\ cb_file_list_manager = [is_expecting_file_list |-> FALSE, file_list |-> <<>>]
  /\ cb_copied = <<>>
  /\ cb_updates = 0
  /\ cb_requested = <<>>

Cli ==
  [allow_directory_sharing |-> allow_directory_sharing, file_cache |-> file_cache,
   next_file_id |-> next_file_id, pending |-> pending, tdp |-> <<>>]

Init ==
  /\ allow_directory_sharing \in BOOLEAN
  /\ active_device_ids = <<>>
  /\ file_cache = EmptyMap
  /\ next_file_id = 0
  /\ pending = [k \in Kinds |-> EmptyMap]
  /\ tdp = <<>>
  /\ out = <<>>
  /\ result = "ok"
  /\ last = [ev |-> "new"]
  /\ awaiting = <<>>
  /\ nround = 0
  /\ listed = EmptyMap
  /\ ClipNew

\* ------------------------------------------------------------------ inputs
QueryInfoLevels == {"FileBasicInformation", "FileStandardInformation", "FileAllInformation"}

QueryDirLevels == {"FileBothDirectoryInformation", "FileNamesInformation"}

QueryVolumeLevels == {"FileFsVolumeInformation", "FileFsDeviceInformation"}

IrpHeaders(major) ==
  [device_id : {DriveDeviceId}, file_id : FileIds, completion_id : CompletionIds,
   major_function : {major}]

With(f, g) == f @@ g

IrpDeviceControlReqs ==
  [device_id : {SCARD_DEVICE_ID, DriveDeviceId}, file_id : {0}, completion_id : CompletionIds,
   major_function : {"IRP_MJ_DEVICE_CONTROL"}, scard_ok : BOOLEAN]

IrpCreateReqs ==
  [device_id : {DriveDeviceId}, file_id : {0}, completion_id : CompletionIds,
   major_function : {"IRP_MJ_CREATE"}, create_disposition : CreateDispositions,
   create_options : SUBSET CreateOptionFlags, path : OpenPaths]

IrpQueryInformationReqs ==
  {With(h, [file_info_class_lvl |-> l]) :
     h \in IrpHeaders("IRP_MJ_QUERY_INFORMATION"), l \in QueryInfoLevels}

IrpDirectoryControlReqs ==
  {With(h, [minor_function |-> "IRP_MN_QUERY_DIRECTORY", initial_query |-> q,
            file_info_class_lvl |-> l]) :
     h \in IrpHeaders("IRP_MJ_DIRECTORY_CONTROL"), q \in {0, 1}, l \in QueryDirLevels}
  \cup
  {With(h, [minor_function |-> m]) :
     h \in IrpHeaders("IRP_MJ_DIRECTORY_CONTROL"),
     m \in {"IRP_MN_NOTIFY_CHANGE_DIRECTORY", "IRP_MN_OTHER"}}

IrpQueryVolumeInformationReqs ==
  {With(h, [fs_info_class_lvl |-> l]) :
     h \in IrpHeaders("IRP_MJ_QUERY_VOLUME_INFORMATION"), l \in QueryVolumeLevels}

IrpReadReqs ==
  {With(h, [length |-> 1, offset |-> 0]) : h \in IrpHeaders("IRP_MJ_READ")}

IrpWriteReqs ==
  {With(h, [offset |-> 0, write_data |-> << 7 >>]) : h \in IrpHeaders("IRP_MJ_WRITE")}

SetBuffers ==
  [class : {"FileRenameInformation"}, replace_if_exists : BOOLEAN, file_name : RenamePaths]
  \cup [class : {"FileDispositionInformation"}, delete_pending : {0, 1}]
  \cup [class : {"FileBasicInformation", "FileEndOfFileInformation",
                 "FileAllocationInformation"}]

IrpSetInformationReqs ==
  {With(h, [file_information_class_level |-> b.class, set_buffer |-> b]) :
     h \in IrpHeaders("IRP_MJ_SET_INFORMATION"), b \in SetBuffers}

\* a major function outside the nine the client handles
IrpOtherReqs ==
  [device_id : {DriveDeviceId}, file_id : {0}, completion_id : CompletionIds,
   major_function : {"IRP_MJ_LOCK_CONTROL"}]

NullFso == FileSystemObject("File", 1, "a")

HostLists == { <<>>, << FileSystemObject("File", 1, "b") >> }

\* what a response of the given kind carries besides completion_id and err_code
Payloads(kind, e) ==
  CASE kind \in {"info", "create"} -> [fso : IF e = "Nil" THEN HostFsos ELSE {NullFso}]
    [] kind = "list" -> [fso_list : IF e = "Nil" THEN HostLists ELSE {<<>>}]
    [] kind = "read" -> [read_data : IF e = "Nil" THEN {<< 7 >>} ELSE {<<>>}]
    [] kind = "write" -> [bytes_written : IF e = "Nil" THEN {1} ELSE {0}]
    [] OTHER -> {EmptyMap}

ResponsesTo(kind, c) ==
  UNION { { With([completion_id |-> c, err_code |-> e], x) : x \in Payloads(kind, e) } :
          e \in TdpErrCode }

TdpResponses(kind) == UNION { ResponsesTo(kind, c) : c \in CompletionIds }

\* ----------------------------------------------------------------- actions
\* the session lasts until a handler returns Err (or panics)
Running == result = "ok"

\* Remove the first occurrence of x from seq.
RemoveFirst(seq, x) ==
  IF \E i \in 1..Len(seq) : seq[i] = x
  THEN LET i == CHOOSE i \in 1..Len(seq) : seq[i] = x /\ \A j \in 1..(i - 1) : seq[j] # x
       IN [j \in 1..(Len(seq) - 1) |-> IF j < i THEN seq[j] ELSE seq[j + 1]]
  ELSE seq

\* What the last step wrote to the rdpdr channel: the response structs, in order.
Written(msgs) ==
  IF msgs = <<>> THEN <<>>
  ELSE IF Len(msgs) = 1 THEN msgs[1].payload
  ELSE msgs[1].payload \o msgs[2].payload

\* ---- the count of the QUERY_DIRECTORY replies of a directory listing
Restrict(m, dom) == [x \in (DOMAIN m) \cap dom |-> m[x]]

\* the step wrote a QUERY_DIRECTORY reply
WroteQueryDirReply(res, msgs) ==
  /\ res = "ok"
  /\ Written(msgs) # <<>>
  /\ Written(msgs)[1].rsp = "ClientDriveQueryDirectoryResponse"

\* after the IRP irp: one more reply for a file_id whose contents were populated
\* (the count stops one past the reply that ends the listing); a closed
\* file_id is forgotten
ListedAfterIrp(irp, r) ==
  LET kept == Restrict(listed, DOMAIN r.cli.file_cache)
  IN IF /\ irp.major_function = "IRP_MJ_DIRECTORY_CONTROL"
        /\ irp.minor_function = "IRP_MN_QUERY_DIRECTORY"
        /\ irp.file_id \in DOMAIN kept
        /\ WroteQueryDirReply(r.res, r.msgs)
     THEN [kept EXCEPT ![irp.file_id] =
             Min(@ + 1, Len(r.cli.file_cache[irp.file_id].contents) + 3)]
     ELSE kept

\* after a List response: the continuation of an initial query populated the
\* contents of its file_id and wrote the first reply
ListedAfterResponse(kind, res, r) ==
  LET kept == Restrict(listed, DOMAIN r.cli.file_cache)
  IN IF /\ kind = "list"
        /\ res.completion_id \in DOMAIN pending[kind]
        /\ res.err_code = "Nil"
        /\ pending[kind][res.completion_id].rdp_req.file_id \in DOMAIN r.cli.file_cache
        /\ WroteQueryDirReply(r.res, r.msgs)
     THEN MapInsert(kept, pending[kind][res.completion_id].rdp_req.file_id, 1)
     ELSE kept

\* read_and_reply on a PAKID_CORE_DEVICE_IOREQUEST carrying irp
DeviceIoRequestStep(irp) ==
  \E r \in {handle_device_io_request(Cli, active_device_ids, irp)} :
  LET round_trip == r.res = "ok" /\ r.cli.tdp # <<>>
  IN
    /\ round_trip => nround < MaxRoundTrips
    /\ file_cache' = r.cli.file_cache
    /\ next_file_id' = r.cli.next_file_id
    /\ pending' = r.cli.pending
    /\ tdp' = r.cli.tdp
    /\ out' = r.msgs
    /\ result' = r.res
    /\ awaiting' = IF round_trip THEN Append(awaiting, irp.completion_id) ELSE awaiting
    /\ nround' = IF round_trip THEN nround + 1 ELSE nround
    /\ last' = [ev |-> "irp", irp |-> irp]
    /\ listed' = ListedAfterIrp(irp, r)
    /\ UNCHANGED << allow_directory_sharing, active_device_ids, cliprdr_vars >>

IrpDeviceControl ==
  /\ Running
  /\ \E irp \in IrpDeviceControlReqs : DeviceIoRequestStep(irp)

IrpCreate ==
  /\ Running
  /\ \E irp \in IrpCreateReqs : DeviceIoRequestStep(irp)

IrpClose ==
  /\ Running
  /\ \E irp \in IrpHeaders("IRP_MJ_CLOSE") : DeviceIoRequestStep(irp)

IrpQueryInformation ==
  /\ Running
  /\ \E irp \in IrpQueryInformationReqs : DeviceIoRequestStep(irp)

IrpDirectoryControl ==
  /\ Running
  /\ \E irp \in IrpDirectoryControlReqs : DeviceIoRequestStep(irp)

IrpQueryVolumeInformation ==
  /\ Running
  /\ \E irp \in IrpQueryVolumeInformationReqs : DeviceIoRequestStep(irp)

IrpRead ==
  /\ Running
  /\ \E irp \in IrpReadReqs : DeviceIoRequestStep(irp)

IrpWrite ==
  /\ Running
  /\ \E irp \in IrpWriteReqs : DeviceIoRequestStep(irp)

IrpSetInformation ==
  /\ Running
  /\ \E irp \in IrpSetInformationReqs : DeviceIoRequestStep(irp)

IrpOther ==
  /\ Running
  /\ \E irp \in IrpOtherReqs : DeviceIoRequestStep(irp)

\* The host delivers the TDP response res of the given kind.  `final` says that
\* a continuation took it and sent no further TDP request: the round trip of
\* its IRP is over.
TdpResponseStep(kind, res) ==
  \E r \in {handle_tdp_sd_response(Cli, kind, res)} :
  LET accepted == res.completion_id \in DOMAIN pending[kind]
      final == accepted /\ r.res = "ok" /\ r.cli.tdp = <<>>
  IN
    /\ file_cache' = r.cli.file_cache
    /\ next_file_id' = r.cli.next_file_id
    /\ pending' = r.cli.pending
    /\ tdp' = r.cli.tdp
    /\ out' = r.msgs
    /\ result' = r.res
    /\ awaiting' = IF final THEN RemoveFirst(awaiting, res.completion_id) ELSE awaiting
    /\ last' = IF accepted
               THEN [ev |-> "tdp", kind |-> kind, res |-> res, final |-> final,
                     cont |-> << pending[kind][res.completion_id] >>,
                     awaiting |-> awaiting]
               ELSE [ev |-> "tdp", kind |-> kind, res |-> res, final |-> FALSE,
                     cont |-> <<>>, awaiting |-> awaiting]
    /\ listed' = ListedAfterResponse(kind, res, r)
    /\ UNCHANGED << allow_directory_sharing, active_device_ids, nround, cliprdr_vars >>

\* The responses the host may deliver.  A response whose completion_id has no
\* continuation is rejected before anything else of it is read
\* (handle_tdp_sd_*_response), so one payload stands for all of them.
Unknown(c) == [completion_id |-> c, err_code |-> "Nil"]

Deliverable(kind) ==
  UNION { IF c \in DOMAIN pending[kind] THEN ResponsesTo(kind, c) ELSE {Unknown(c)} :
          c \in CompletionIds }

TdpInfoResponse ==
  /\ Running
  /\ \E res \in Deliverable("info") : TdpResponseStep("info", res)

TdpCreateResponse ==
  /\ Running
  /\ \E res \in Deliverable("create") : TdpResponseStep("create", res)

TdpDeleteResponse ==
  /\ Running
  /\ \E res \in Deliverable("delete") : TdpResponseStep("delete", res)

TdpListResponse ==
  /\ Running
  /\ \E res \in Deliverable("list") : TdpResponseStep("list", res)

TdpReadResponse ==
  /\ Running
  /\ \E res \in Deliverable("read") : TdpResponseStep("read", res)

TdpWriteResponse ==
  /\ Running
  /\ \E res \in Deliverable("write") : TdpResponseStep("write", res)

TdpMoveResponse ==
  /\ Running
  /\ \E res \in Deliverable("move") : TdpResponseStep("move", res)

\* read_and_reply on a PAKID_CORE_CLIENTID_CONFIRM
ClientIdConfirm ==
  /\ Running
  /\ LET r == handle_client_id_confirm(active_device_ids) IN
       /\ active_device_ids' = r.ids
       /\ out' = r.msgs
  /\ tdp' = <<>>
  /\ result' = "ok"
  /\ last' = [ev |-> "client_id_confirm"]
  /\ UNCHANGED << allow_directory_sharing, file_cache, next_file_id, pending, awaiting, nround,
                  listed, cliprdr_vars >>

\* the host announces a shared directory
DriveAnnounce ==
  /\ Running
  /\ LET r == write_client_device_list_announce(active_device_ids, DriveDeviceId) IN
       /\ active_device_ids' = r.ids
       /\ out' = r.msgs
       /\ result' = IF r.ok THEN "ok" ELSE "err"
  /\ tdp' = <<>>
  /\ last' = [ev |-> "drive_announce"]
  /\ UNCHANGED << allow_directory_sharing, file_cache, next_file_id, pending, awaiting, nround,
                  listed, cliprdr_vars >>

Next ==
  \/ ClientIdConfirm
  \/ DriveAnnounce
  \/ IrpDeviceControl
  \/ IrpCreate
  \/ IrpClose
  \/ IrpQueryInformation
  \/ IrpDirectoryControl
  \/ IrpQueryVolumeInformation
  \/ IrpRead
  \/ IrpWrite
  \/ IrpSetInformation
  \/ IrpOther
  \/ TdpInfoResponse
  \/ TdpCreateResponse
  \/ TdpDeleteResponse
  \/ TdpListResponse
  \/ TdpReadResponse
  \/ TdpWriteResponse
  \/ TdpMoveResponse

Spec == Init /\ [][Next]_vars

\* ------------------------------------------------------------- scenarios
\* Sharing forbidden by RBAC: every action of the client, sharing disabled.
InitDisabled == Init /\ ~allow_directory_sharing

SpecDisabled == InitDisabled /\ [][Next]_vars

InitShared == Init /\ allow_directory_sharing

\* no IRP is awaiting a TDP response
Quiescent == \A k \in Kinds : pending[k] = EmptyMap

\* CREATE, SET_INFORMATION (disposition) and CLOSE with every disposition and
\* option, the server sending an IRP once the previous one has been answered.
IrpSetDispositionReqs ==
  {irp \in IrpSetInformationReqs :
     irp.file_information_class_level = "FileDispositionInformation"}

SeqCreate ==
  /\ Quiescent
  /\ IrpCreate

SeqSetDisposition ==
  /\ Running
  /\ Quiescent
  /\ \E irp \in IrpSetDispositionReqs : DeviceIoRequestStep(irp)

SeqClose ==
  /\ Quiescent
  /\ IrpClose

NextCreate ==
  \/ SeqCreate
  \/ SeqSetDisposition
  \/ SeqClose
  \/ TdpInfoResponse
  \/ TdpCreateResponse
  \/ TdpDeleteResponse

SpecCreate == InitShared /\ [][NextCreate]_vars

\* One IRP at a time through each of the seven kinds of TDP round trip.
DrvCreateReqs ==
  {irp \in IrpCreateReqs :
     irp.create_options = {} /\ irp.create_disposition \in {FILE_OPEN_IF, FILE_SUPERSEDE}}

DrvDirectoryControlReqs ==
  {irp \in IrpDirectoryControlReqs :
     /\ irp.minor_function = "IRP_MN_QUERY_DIRECTORY"
     /\ irp.file_info_class_lvl = "FileBothDirectoryInformation"}

IrpRenameReqs ==
  {irp \in IrpSetInformationReqs :
     irp.file_information_class_level = "FileRenameInformation"}

DrvCreate ==
  /\ Running
  /\ Quiescent
  /\ \E irp \in DrvCreateReqs : DeviceIoRequestStep(irp)

DrvDirectoryControl ==
  /\ Running
  /\ Quiescent
  /\ \E irp \in DrvDirectoryControlReqs : DeviceIoRequestStep(irp)

DrvRename ==
  /\ Running
  /\ Quiescent
  /\ \E irp \in IrpRenameReqs : DeviceIoRequestStep(irp)

DrvRead ==
  /\ Quiescent
  /\ IrpRead

DrvWrite ==
  /\ Quiescent
  /\ IrpWrite

NextDrive ==
  \/ DrvCreate
  \/ DrvDirectoryControl
  \/ DrvRename
  \/ DrvRead
  \/ DrvWrite
  \/ SeqClose
  \/ TdpInfoResponse
  \/ TdpCreateResponse
  \/ TdpDeleteResponse
  \/ TdpListResponse
  \/ TdpReadResponse
  \/ TdpWriteResponse
  \/ TdpMoveResponse

SpecDrive == InitShared /\ [][NextDrive]_vars

\* IRPs arriving while earlier ones still await their TDP responses.
ConCreate ==
  /\ Running
  /\ \E irp \in DrvCreateReqs : DeviceIoRequestStep(irp)

NextConcurrent ==
  \/ ConCreate
  \/ IrpClose
  \/ IrpRead
  \/ TdpInfoResponse
  \/ TdpCreateResponse
  \/ TdpDeleteResponse
  \/ TdpReadResponse

SpecConcurrent == InitShared /\ [][NextConcurrent]_vars

\* The listing of a directory, from the state in which CREATE has opened the
\* directory "a" under file_id 1 (with a new budget of round trips); the server
\* sends one IRP at a time, and a non-initial query only for a file_id whose
\* initial query has been answered.
OpenedDirectories ==
  {FileCacheObject_new("a", fso) : fso \in {f \in HostFsos : f.file_type = "Directory"}}

InitListing ==
  /\ allow_directory_sharing = TRUE
  /\ active_device_ids = << SCARD_DEVICE_ID, DriveDeviceId >>
  /\ \E dir \in OpenedDirectories : file_cache = MapInsert(EmptyMap, 1, dir)
  /\ next_file_id = 1
  /\ pending = [k \in Kinds |-> EmptyMap]
  /\ tdp = <<>>
  /\ out = <<>>
  /\ result = "ok"
  /\ last = [ev |-> "new"]
  /\ awaiting = <<>>
  /\ nround = 0
  /\ listed = EmptyMap
  /\ ClipNew

LstQueryReqs ==
  {irp \in IrpDirectoryControlReqs : irp.minor_function = "IRP_MN_QUERY_DIRECTORY"}

LstInitialQuery ==
  /\ Running
  /\ Quiescent
  /\ \E irp \in LstQueryReqs : irp.initial_query # 0 /\ DeviceIoRequestStep(irp)

LstNextQuery ==
  /\ Running
  /\ Quiescent
  /\ \E irp \in LstQueryReqs :
       /\ irp.initial_query = 0
       /\ irp.file_id \in DOMAIN listed
       /\ DeviceIoRequestStep(irp)

\* a DIRECTORY_CONTROL IRP whose minor function is not QUERY_DIRECTORY
LstOtherMinor ==
  /\ Running
  /\ Quiescent
  /\ \E irp \in IrpDirectoryControlReqs \ LstQueryReqs : DeviceIoRequestStep(irp)

\* an IRP whose major function the client does not implement
LstOtherMajor ==
  /\ Quiescent
  /\ IrpOther

NextListing ==
  \/ LstInitialQuery
  \/ LstNextQuery
  \/ LstOtherMinor
  \/ LstOtherMajor
  \/ TdpListResponse
  \/ SeqClose

SpecListing == InitListing /\ [][NextListing]_vars

\* ----------------------------------------------------- the cliprdr channel
ChunkFlags(chunk) == ChannelPDUHeader_decode(chunk).flags

\* the logical PDU under way after this chunk: it begins on a FIRST chunk and
\* goes on until a chunk with LAST; a chunk outside of one belongs to none
PduOpen(pdu) == pdu # <<>> /\ "CHANNEL_FLAG_LAST" \notin ChunkFlags(pdu[Len(pdu)])

PduAfter(pdu, chunk) ==
  IF "CHANNEL_FLAG_FIRST" \in ChunkFlags(chunk) THEN << chunk >>
  ELSE IF PduOpen(pdu) THEN Append(pdu, chunk)
  ELSE <<>>

\* the format ids of the FORMAT_DATA_REQUESTs among the chunks the client
\* wrote: handle_format_list writes one per supported format, in list order
IsRequestChunk(chunk) ==
  /\ {"CHANNEL_FLAG_FIRST", "CHANNEL_FLAG_LAST"} \subseteq ChunkFlags(chunk)
  /\ ClipboardPDUHeader_decode(Drop(chunk, 8)).ok
  /\ ClipboardPDUHeader_decode(Drop(chunk, 8)).header.msg_type = "CB_FORMAT_DATA_REQUEST"
  /\ Len(chunk) >= 20

RequestedFormats(msgs) ==
  LET reqs == SelectSeq(msgs, IsRequestChunk)
  IN [i \in DOMAIN reqs |-> read_u32(Drop(reqs[i], 16))]

\* the requests still to be answered after a step: the server answers them in
\* request order, so a FORMAT_DATA_RESPONSE answers the oldest one
AnswersRequest(handled) ==
  \E i \in DOMAIN handled : handled[i].header.msg_type = "CB_FORMAT_DATA_RESPONSE"

Outstanding(requested, handled, msgs) ==
  (IF AnswersRequest(handled) /\ requested # <<>> THEN Tail(requested) ELSE requested)
    \o RequestedFormats(msgs)

\* Client::read on one inbound chunk of the cliprdr channel
ReadStep(chunk) ==
  \E r \in {Client_read([clipboard |-> cb_clipboard, pending |-> cb_pending,
                          file_list_manager |-> cb_file_list_manager], chunk)} :
    /\ cb_pending' = r.pending
    /\ cb_file_list_manager' = r.file_list_manager
    /\ cb_copied' = r.copied
    /\ cb_out' = r.msgs
    /\ cb_result' = r.res
    /\ cb_last' = [ev |-> "read", chunk |-> chunk, handled |-> r.handled]
    /\ cb_pdu' = PduAfter(cb_pdu, chunk)
    /\ cb_peer' = [cb_peer EXCEPT
                     !.feed = IF @ = <<>> THEN @ ELSE Tail(@),
                     !.sent = IF cb_peer.feed = <<>> THEN @ + 1 ELSE @,
                     !.received = @ \cup {r.handled[i].header.msg_type : i \in DOMAIN r.handled}]
    /\ cb_requested' = Outstanding(cb_requested, r.handled, r.msgs)
    /\ UNCHANGED << rdpdr_vars, cb_clipboard, cb_updates >>

\* the payloads of the test encodes_large_format_data_response: byte i is i % 256
Pattern(n) == [i \in 1..n |-> (i - 1) % 256]

\* payload lengths around the chunk boundaries
PayloadLens ==
  {0, 1, CHANNEL_CHUNK_LEGNTH - 8, CHANNEL_CHUNK_LEGNTH - 7, CHANNEL_CHUNK_LEGNTH + 2,
   2 * CHANNEL_CHUNK_LEGNTH - 8, 2 * CHANNEL_CHUNK_LEGNTH - 7}

\* the capability sets a server may send
ServerCaps ==
  { ClipboardCapabilitiesPDU_encode(<<>>),
    ClipboardCapabilitiesPDU_encode(
      << [version |-> CB_CAPS_VERSION_2, flags |-> {"CB_USE_LONG_FORMAT_NAMES"}] >>) }

MessagePayloads(msg_type) ==
  {Pattern(n) : n \in PayloadLens} \cup (IF msg_type = "CB_CLIP_CAPS" THEN ServerCaps ELSE {})

\* the peer encodes the message (t, p) with encode_message
Encode(t, p) ==
  /\ cb_peer.sent < MaxMessages
  /\ cb_peer' = [cb_peer EXCEPT !.msg = << [msg_type |-> t, payload |-> p] >>,
                                !.feed = encode_message(t, p),
                                !.sent = @ + 1]
  /\ cb_last' = [ev |-> "encode"]
  /\ UNCHANGED << rdpdr_vars, cb_pending, cb_out, cb_result, cb_pdu,
                  cb_clipboard, cb_file_list_manager, cb_copied, cb_updates, cb_requested >>

\* encode_message on every message type
EncodeMessage ==
  \E t \in DOMAIN ClipboardPDUType : \E p \in MessagePayloads(t) : Encode(t, p)

SpecEncode == InitDisabled /\ [][EncodeMessage]_vars

\* The peer encodes a message with encode_message and sends its chunks in
\* order, one message after the other.
PeerEncode ==
  /\ cb_result = "ok"
  /\ cb_peer.feed = <<>>
  /\ \E t \in HandledTypes : \E p \in MessagePayloads(t) : Encode(t, p)

PeerSend ==
  /\ cb_result = "ok"
  /\ cb_peer.feed # <<>>
  /\ ReadStep(Head(cb_peer.feed))

NextClipboard ==
  \/ PeerEncode
  \/ PeerSend

SpecClipboard == InitDisabled /\ [][NextClipboard]_vars

\* An arbitrary peer: any chunk at any time.
ChunkBodies == { <<>>, << 1 >>, Pattern(9) }

\* the clipboard headers of the FIRST chunks, one of a message type that does
\* not exist
FirstHeaders ==
  { ClipboardPDUHeader_encode(ClipboardPDUHeader_new("CB_MONITOR_READY", {}, 0)),
    ClipboardPDUHeader_encode(ClipboardPDUHeader_new("CB_TEMP_DIRECTORY", {}, 1)),
    write_u16(0) \o write_u16(0) \o write_u32(0) }

\* FIRST chunks carry a clipboard header, the others do not; all announce a
\* logical PDU of 9 bytes
ServerChunks ==
  { ChannelPDUHeader_encode(9, {"CHANNEL_FLAG_FIRST"} \cup f) \o h \o b :
      f \in SUBSET {"CHANNEL_FLAG_LAST"}, h \in FirstHeaders, b \in ChunkBodies }
  \cup
  { ChannelPDUHeader_encode(9, f) \o b :
      f \in SUBSET {"CHANNEL_FLAG_LAST"}, b \in ChunkBodies }

ServerChunk ==
  /\ cb_result = "ok"
  /\ cb_peer.sent < MaxChunks
  /\ \E chunk \in ServerChunks : ReadStep(chunk)

SpecChunks == InitDisabled /\ [][ServerChunk]_vars

\* Copy and paste.  The host calls update_clipboard; the peer announces
\* formats, asks for data and answers the client's requests.
UpdateClipboard(data) ==
  /\ cb_result = "ok"
  /\ cb_updates < MaxUpdates
  /\ \E r \in {update_clipboard(cb_clipboard, data)} :
       /\ cb_clipboard' = r.clipboard
       /\ cb_out' = r.msgs
  /\ cb_updates' = cb_updates + 1
  /\ cb_copied' = <<>>
  /\ cb_last' = [ev |-> "update", data |-> data]
  /\ UNCHANGED << rdpdr_vars, cb_pending, cb_result, cb_peer, cb_pdu, cb_file_list_manager,
                  cb_requested >>

\* the format names a server lists: two standard formats without a name, the
\* file list under the id the server registered for it, a format the client
\* does not know, and CF_OEMTEXT carrying the name of the file list
OemText == [format_id |-> CF_OEMTEXT, format_name |-> <<>>]

UnicodeText == [format_id |-> 13, format_name |-> <<>>]

FileGroupDescriptorW == [format_id |-> 49159, format_name |-> << CLIPBOARD_FORMAT_NAME_FILE_LIST >>]

RichText == [format_id |-> 49160, format_name |-> << << 82, 84, 70 >> >>]

OemFileList == [format_id |-> CF_OEMTEXT, format_name |-> << CLIPBOARD_FORMAT_NAME_FILE_LIST >>]

FormatLists ==
  { <<>>, << UnicodeText >>, << RichText >>, << OemText >>, << FileGroupDescriptorW >>,
    << OemFileList >>, << OemText, FileGroupDescriptorW >>, << FileGroupDescriptorW, OemText >>,
    << UnicodeText, OemText >>, << FileGroupDescriptorW, RichText >>, << OemText, OemText >> }

\* the texts the host copies here: "abc", nothing, and a text of more than a chunk
CopiedTexts == { << 97, 98, 99 >>, <<>>, Pattern(CHANNEL_CHUNK_LEGNTH) }

\* the data a server answers a request with: "abc\0", "abc", nothing, a lone
\* NUL, "a\0\0", and four NUL bytes (a file list of no file)
RemoteData ==
  { << 97, 98, 99, 0 >>, << 97, 98, 99 >>, <<>>, << 0 >>, << 97, 0, 0 >>, << 0, 0, 0, 0 >> }

RequestedIds == { CF_OEMTEXT, 13 }

LocalCopy ==
  /\ cb_result = "ok"
  /\ \E data \in CopiedTexts : UpdateClipboard(data)

PeerFormatList ==
  /\ cb_result = "ok"
  /\ cb_peer.feed = <<>>
  /\ \E list \in FormatLists : Encode("CB_FORMAT_LIST", FormatListPDU_encode(list))

\* a format list cut short inside a format id
PeerTruncatedList ==
  /\ cb_result = "ok"
  /\ cb_peer.feed = <<>>
  /\ Encode("CB_FORMAT_LIST", << 7, 0, 0 >>)

PeerDataRequest ==
  /\ cb_result = "ok"
  /\ cb_peer.feed = <<>>
  /\ \E id \in RequestedIds : Encode("CB_FORMAT_DATA_REQUEST", FormatDataRequestPDU_encode(id))

PeerDataResponse ==
  /\ cb_result = "ok"
  /\ cb_peer.feed = <<>>
  /\ \E data \in RemoteData : Encode("CB_FORMAT_DATA_RESPONSE", data)

NextCopyPaste ==
  \/ LocalCopy
  \/ PeerFormatList
  \/ PeerTruncatedList
  \/ PeerDataRequest
  \/ PeerDataResponse
  \/ PeerSend

SpecCopyPaste == InitDisabled /\ [][NextCopyPaste]_vars

\* The host copies text after text, also the text the client has cached.
LocalTexts ==
  UNION { [1..n -> {0, 10, 13, 97}] : n \in 0..MaxTextLen }

HostCopy ==
  /\ cb_result = "ok"
  /\ \E data \in LocalTexts : UpdateClipboard(data)

HostCopyCached ==
  /\ CF_OEMTEXT \in DOMAIN cb_clipboard
  /\ UpdateClipboard(cb_clipboard[CF_OEMTEXT])

NextUpdate ==
  \/ HostCopy
  \/ HostCopyCached

SpecUpdate == InitDisabled /\ [][NextUpdate]_vars

\* ------------------------------------------------------------------ claims
NoPending(p) == \A k \in Kinds : p[k] = EmptyMap

\* The device id process_irp_device_control compares an IRP's device_id with
\* (get_scard_device_id), and whether the IRP is addressed to it.
AddressedToScard(ids, irp) ==
  /\ get_scard_device_id(ids).ok
  /\ irp.device_id = get_scard_device_id(ids).id

C1_Refused ==
  (/\ ~allow_directory_sharing
   /\ last'.ev = "irp"
   /\ \/ last'.irp.major_function # "IRP_MJ_DEVICE_CONTROL"
      \/ ~AddressedToScard(active_device_ids, last'.irp))
  => (result' = "err" /\ out' = <<>> /\ tdp' = <<>>)

C2_Refused ==
  (last'.ev = "tdp" /\ last'.res.completion_id \notin DOMAIN pending[last'.kind])
  => /\ result' = "err"
     /\ out' = <<>>
     /\ tdp' = <<>>
     /\ file_cache' = file_cache
     /\ pending' = pending

C2_OneShot ==
  (last'.ev = "tdp" /\ last'.res.completion_id \in DOMAIN pending[last'.kind])
  => last'.res.completion_id \notin DOMAIN pending'[last'.kind]

\* C2: a TDP response of any of the seven kinds whose completion_id has no
\* continuation in that kind's table is a hard error that writes no RDP bytes
\* and leaves the file cache and every continuation table unchanged; and a
\* continuation is one-shot: the response that consumes it leaves no
\* continuation for that (kind, completion_id), so that a second response for
\* it is such an error.
C2_UnknownCompletionId == [][C2_Refused /\ C2_OneShot]_vars

\* C2 witness: a round trip was started and answered to the end, and a further
\* Info response was refused.
C2_Witness ==
  /\ last.ev = "tdp"
  /\ last.kind = "info"
  /\ last.cont = <<>>
  /\ result = "err"
  /\ nround = 1
  /\ awaiting = <<>>

C3_AtFinalResponse ==
  (last'.ev = "tdp" /\ last'.cont # <<>> /\ result' = "ok")
  => IF last'.final
     THEN /\ Len(Written(out')) = 1
          /\ Written(out')[1].device_io_reply.completion_id = last'.res.completion_id
          /\ Written(out')[1].device_io_reply.device_id = last'.cont[1].rdp_req.device_id
     ELSE Written(out') = <<>>

C3_NotAtReceipt ==
  (last'.ev = "irp" /\ tdp' # <<>>) => Written(out') = <<>>

\* C3: the reply of an IRP that needs a TDP round trip is written in the step
\* that handles the final TDP response of that round trip, and in no other:
\* the step that receives the IRP and the steps that handle the earlier
\* responses of its round trip write no reply.  So the replies leave in the
\* order in which the final responses arrive, whatever the order in which the
\* IRPs were received.
C3_RepliesInResponseOrder == [][C3_AtFinalResponse /\ C3_NotAtReceipt]_vars

\* C3 witness: two IRPs were in a round trip, and the final response of the one
\* received later arrived first: its reply was written first.
C3_Witness ==
  /\ last.ev = "tdp"
  /\ last.final
  /\ Len(last.awaiting) = 2
  /\ last.awaiting[1] # last.awaiting[2]
  /\ last.res.completion_id = last.awaiting[2]
  /\ Len(Written(out)) = 1
  /\ awaiting = << last.awaiting[1] >>

\* ---- CREATE: what a step that handled a TDP response did
\* the step handled a TDP response with the continuation registered by `op`
TookResponse(op) ==
  /\ last'.ev = "tdp"
  /\ last'.cont # <<>>
  /\ last'.cont[1].op = op

\* the step wrote exactly one CREATE reply, to req, with this status and file_id
RepliedCreate(req, io_status, file_id) ==
  /\ result' = "ok"
  /\ Len(Written(out')) = 1
  /\ Written(out')[1].rsp = "DeviceCreateResponse"
  /\ Written(out')[1].device_io_reply.completion_id = req.completion_id
  /\ Written(out')[1].device_io_reply.device_id = req.device_id
  /\ Written(out')[1].device_io_reply.io_status = io_status
  /\ Written(out')[1].file_id = file_id

\* the step opened the target of req: a file_id that was not in use, an FCO for
\* the path under it, every other FCO as before, a SUCCESS reply with that
\* file_id and no TDP request
Opened(req, fso) ==
  /\ next_file_id' # next_file_id
  /\ next_file_id' \notin DOMAIN file_cache
  /\ DOMAIN file_cache' = DOMAIN file_cache \cup {next_file_id'}
  /\ \A f \in DOMAIN file_cache : file_cache'[f] = file_cache[f]
  /\ file_cache'[next_file_id'].path = req.path
  /\ file_cache'[next_file_id'].fso = fso
  /\ ~file_cache'[next_file_id'].delete_pending
  /\ RepliedCreate(req, "STATUS_SUCCESS", next_file_id')
  /\ tdp' = <<>>

\* the step failed req: a reply with this status and file_id 0, no FCO
\* inserted, no TDP request
FailedCreate(req, io_status) ==
  /\ RepliedCreate(req, io_status, 0)
  /\ file_cache' = file_cache
  /\ next_file_id' = next_file_id
  /\ tdp' = <<>>

\* the step sent exactly one TDP request of this kind and shape for req, and
\* wrote no reply
SentCreateRequest(req, file_type) ==
  /\ result' = "ok"
  /\ tdp' = << [kind |-> "create", completion_id |-> req.completion_id,
                directory_id |-> req.device_id, file_type |-> file_type,
                path |-> req.path] >>
  /\ Written(out') = <<>>
  /\ file_cache' = file_cache

SentDeleteRequest(req, path) ==
  /\ result' = "ok"
  /\ tdp' = << [kind |-> "delete", completion_id |-> req.completion_id,
                directory_id |-> req.device_id, path |-> path] >>
  /\ Written(out') = <<>>

\* a reply of the step that does not say SUCCESS carries file_id 0, and the
\* step inserted no FCO
FailingReplyInsertsNothing ==
  (/\ Written(out') # <<>>
   /\ Written(out')[1].device_io_reply.io_status # "STATUS_SUCCESS")
  => (Written(out')[1].file_id = 0 /\ file_cache' = file_cache)

C4_Matrix ==
  (/\ TookResponse("process_irp_create")
   /\ last'.cont[1].rdp_req.create_options = {}
   /\ \/ last'.res.err_code = "DoesNotExist"
      \/ last'.res.err_code = "Nil" /\ last'.res.fso.file_type = "File")
  => LET req == last'.cont[1].rdp_req
         d == req.create_disposition
         exists == last'.res.err_code = "Nil"
     IN /\ (exists /\ d \in {FILE_OPEN, FILE_OPEN_IF}) => Opened(req, last'.res.fso)
        /\ (~exists /\ d \in {FILE_OPEN, FILE_OVERWRITE})
             => FailedCreate(req, "STATUS_NO_SUCH_FILE")
        /\ (exists /\ d = FILE_CREATE) => FailedCreate(req, "STATUS_OBJECT_NAME_COLLISION")
        /\ (~exists /\ d \in {FILE_SUPERSEDE, FILE_CREATE, FILE_OPEN_IF, FILE_OVERWRITE_IF})
             => SentCreateRequest(req, "File")
        /\ FailingReplyInsertsNothing

\* C4: CREATE on a target that is a regular file or missing, create_options
\* holding neither FILE_DIRECTORY_FILE nor FILE_NON_DIRECTORY_FILE: FILE_OPEN
\* and FILE_OPEN_IF on an existing target reply STATUS_SUCCESS with a newly
\* generated file_id and insert an FCO, with no further TDP request; FILE_OPEN
\* and FILE_OVERWRITE on a missing target reply STATUS_NO_SUCH_FILE;
\* FILE_CREATE on an existing target replies STATUS_OBJECT_NAME_COLLISION;
\* FILE_SUPERSEDE, FILE_CREATE, FILE_OPEN_IF and FILE_OVERWRITE_IF on a missing
\* target send a Create request for a regular file; a failing reply carries
\* file_id 0 and inserts no FCO.
C4_DispositionMatrix == [][C4_Matrix]_vars

\* C4 witness: FILE_OPEN_IF found its target, a regular file, and opened it
\* under a file_id now in the cache.
C4_Witness ==
  /\ last.ev = "tdp"
  /\ last.cont # <<>>
  /\ last.cont[1].op = "process_irp_create"
  /\ last.cont[1].rdp_req.create_disposition = FILE_OPEN_IF
  /\ last.cont[1].rdp_req.create_options = {}
  /\ last.res.err_code = "Nil"
  /\ last.res.fso.file_type = "File"
  /\ Written(out) # <<>>
  /\ Written(out)[1].device_io_reply.io_status = "STATUS_SUCCESS"
  /\ Written(out)[1].file_id \in DOMAIN file_cache

\* a CREATE of a regular file with disposition FILE_CREATE
IsFileCreate(req) ==
  /\ req.create_disposition = FILE_CREATE
  /\ "FILE_DIRECTORY_FILE" \notin req.create_options

C5_Probe ==
  (/\ last'.ev = "irp"
   /\ last'.irp.major_function = "IRP_MJ_CREATE"
   /\ IsFileCreate(last'.irp))
  => /\ result' = "ok"
     /\ tdp' = << [kind |-> "info", completion_id |-> last'.irp.completion_id,
                   directory_id |-> last'.irp.device_id, path |-> last'.irp.path] >>
     /\ Written(out') = <<>>
     /\ file_cache' = file_cache

C5_Missing ==
  (/\ TookResponse("process_irp_create")
   /\ IsFileCreate(last'.cont[1].rdp_req)
   /\ last'.res.err_code = "DoesNotExist")
  => SentCreateRequest(last'.cont[1].rdp_req, "File")

C5_Created ==
  (/\ TookResponse("tdp_sd_create")
   /\ IsFileCreate(last'.cont[1].rdp_req))
  => IF last'.res.err_code = "Nil"
     THEN /\ Opened(last'.cont[1].rdp_req, last'.res.fso)
          /\ Written(out')[1].information = "FILE_SUPERSEDED"
     ELSE FailedCreate(last'.cont[1].rdp_req, "STATUS_UNSUCCESSFUL")

\* C5: CREATE of a missing regular file with disposition FILE_CREATE: the IRP
\* causes exactly one Info request with its completion_id; the Info response
\* DoesNotExist causes exactly one Create request for FileType::File; the
\* Create response Nil allocates a new file_id, inserts an FCO for the path
\* under it and replies STATUS_SUCCESS with that file_id and Information
\* FILE_SUPERSEDED; a Create response with another err_code replies
\* STATUS_UNSUCCESSFUL with file_id 0 and inserts nothing.
C5_CreateMissingFile == [][C5_Probe /\ C5_Missing /\ C5_Created]_vars

\* C5 witness: the Create response Nil of a FILE_CREATE arrived and the reply
\* says SUCCESS.
C5_Witness ==
  /\ last.ev = "tdp"
  /\ last.kind = "create"
  /\ last.cont # <<>>
  /\ IsFileCreate(last.cont[1].rdp_req)
  /\ last.res.err_code = "Nil"
  /\ Written(out) # <<>>
  /\ Written(out)[1].device_io_reply.io_status = "STATUS_SUCCESS"
  /\ Written(out)[1].file_id \in DOMAIN file_cache

\* the type of the existing target does not contradict the create_options
NoTypeConflict(req, fso) ==
  IF fso.file_type = "Directory"
  THEN "FILE_NON_DIRECTORY_FILE" \notin req.create_options
  ELSE "FILE_DIRECTORY_FILE" \notin req.create_options

C6_DeleteFirst ==
  (/\ TookResponse("process_irp_create")
   /\ last'.res.err_code = "Nil"
   /\ last'.cont[1].rdp_req.create_disposition
        \in {FILE_SUPERSEDE, FILE_OVERWRITE, FILE_OVERWRITE_IF})
  => /\ \A i \in 1..Len(tdp') : tdp'[i].kind # "create"
     /\ NoTypeConflict(last'.cont[1].rdp_req, last'.res.fso)
          => /\ SentDeleteRequest(last'.cont[1].rdp_req, last'.cont[1].rdp_req.path)
             /\ file_cache' = file_cache

C6_ThenCreate ==
  TookResponse("tdp_sd_overwrite")
  => IF last'.res.err_code = "Nil"
     THEN SentCreateRequest(last'.cont[1].rdp_req, "File")
     ELSE FailedCreate(last'.cont[1].rdp_req, "STATUS_UNSUCCESSFUL")

\* C6: overwriting an existing target (FILE_SUPERSEDE, FILE_OVERWRITE,
\* FILE_OVERWRITE_IF with Info response Nil, the target's type not contradicting
\* the create_options) is a Delete-then-Create chain: the Info response sends a
\* Delete request and no Create request; the Delete response Nil sends the
\* Create request for a regular file; a Delete response with another err_code
\* yields a CREATE reply STATUS_UNSUCCESSFUL with file_id 0, no Create request
\* and no FCO.
C6_OverwriteChain == [][C6_DeleteFirst /\ C6_ThenCreate]_vars

\* C6 witness: the Delete response Nil of an overwrite arrived and the Create
\* request for a regular file went out.
C6_Witness ==
  /\ last.ev = "tdp"
  /\ last.kind = "delete"
  /\ last.cont # <<>>
  /\ last.cont[1].op = "tdp_sd_overwrite"
  /\ last.res.err_code = "Nil"
  /\ Len(tdp) = 1
  /\ tdp[1].kind = "create"
  /\ tdp[1].file_type = "File"

C7_Checks ==
  (/\ TookResponse("process_irp_create")
   /\ last'.res.err_code = "Nil")
  => LET req == last'.cont[1].rdp_req
         dir == last'.res.fso.file_type = "Directory"
     IN /\ (dir /\ req.create_disposition = FILE_CREATE)
             => FailedCreate(req, "STATUS_OBJECT_NAME_COLLISION")
        /\ (/\ dir
            /\ req.create_disposition # FILE_CREATE
            /\ "FILE_NON_DIRECTORY_FILE" \in req.create_options)
             => FailedCreate(req, "STATUS_ACCESS_DENIED")
        /\ (~dir /\ "FILE_DIRECTORY_FILE" \in req.create_options)
             => FailedCreate(req, "STATUS_NOT_A_DIRECTORY")

\* C7: when the Info probe of a CREATE reports an existing target, these checks
\* come before the disposition rules, the first that applies deciding: a
\* directory and disposition FILE_CREATE, STATUS_OBJECT_NAME_COLLISION; a
\* directory and FILE_NON_DIRECTORY_FILE in create_options,
\* STATUS_ACCESS_DENIED; a file and FILE_DIRECTORY_FILE in create_options,
\* STATUS_NOT_A_DIRECTORY.  The reply has file_id 0, no TDP request is sent
\* and no FCO is inserted.
C7_ExistingTargetChecks == [][C7_Checks]_vars

\* C7 witness: FILE_CREATE with FILE_NON_DIRECTORY_FILE found a directory: the
\* first two checks both apply, and the reply is the first one's.
C7_Witness ==
  /\ last.ev = "tdp"
  /\ last.cont # <<>>
  /\ last.cont[1].op = "process_irp_create"
  /\ last.cont[1].rdp_req.create_disposition = FILE_CREATE
  /\ "FILE_NON_DIRECTORY_FILE" \in last.cont[1].rdp_req.create_options
  /\ last.res.err_code = "Nil"
  /\ last.res.fso.file_type = "Directory"
  /\ Written(out) # <<>>
  /\ Written(out)[1].device_io_reply.io_status = "STATUS_OBJECT_NAME_COLLISION"

C8_Step ==
  (/\ TookResponse("process_irp_create")
   /\ last'.res.err_code = "DoesNotExist"
   /\ "FILE_DIRECTORY_FILE" \in last'.cont[1].rdp_req.create_options)
  => IF last'.cont[1].rdp_req.create_disposition \in {FILE_OPEN_IF, FILE_CREATE}
     THEN SentCreateRequest(last'.cont[1].rdp_req, "Directory")
     ELSE FailedCreate(last'.cont[1].rdp_req, "STATUS_NO_SUCH_FILE")

\* C8: when the Info probe of a CREATE reports DoesNotExist and create_options
\* contain FILE_DIRECTORY_FILE, dispositions FILE_OPEN_IF and FILE_CREATE send
\* a Create request for FileType::Directory, and every other disposition
\* replies STATUS_NO_SUCH_FILE and sends no Create request.
C8_MissingDirectory == [][C8_Step]_vars

\* C9: the Information of every CREATE reply is FILE_SUPERSEDED when the status
\* is not SUCCESS or the disposition is FILE_SUPERSEDE, FILE_OPEN, FILE_CREATE
\* or FILE_OVERWRITE, FILE_OPENED for SUCCESS and FILE_OPEN_IF,
\* FILE_OVERWRITTEN for SUCCESS and FILE_OVERWRITE_IF; and building the reply
\* never panics.
C9_InformationTable ==
  /\ result # "panic"
  /\ (/\ last.ev = "tdp"
      /\ last.cont # <<>>
      /\ Written(out) # <<>>
      /\ Written(out)[1].rsp = "DeviceCreateResponse")
     => LET d == last.cont[1].rdp_req.create_disposition
            io_status == Written(out)[1].device_io_reply.io_status
        IN Written(out)[1].information =
             IF \/ io_status # "STATUS_SUCCESS"
                \/ d \in {FILE_SUPERSEDE, FILE_OPEN, FILE_CREATE, FILE_OVERWRITE}
             THEN "FILE_SUPERSEDED"
             ELSE IF d = FILE_OPEN_IF THEN "FILE_OPENED" ELSE "FILE_OVERWRITTEN"

\* the step wrote exactly one CLOSE reply, to req, with this status
RepliedClose(req, io_status) ==
  /\ result' = "ok"
  /\ Len(Written(out')) = 1
  /\ Written(out')[1].rsp = "DeviceCloseResponse"
  /\ Written(out')[1].device_io_reply.completion_id = req.completion_id
  /\ Written(out')[1].device_io_reply.device_id = req.device_id
  /\ Written(out')[1].device_io_reply.io_status = io_status

C10_Close ==
  (/\ last'.ev = "irp"
   /\ last'.irp.major_function = "IRP_MJ_CLOSE")
  => LET irp == last'.irp
     IN IF irp.file_id \in DOMAIN file_cache
        THEN /\ DOMAIN file_cache' = DOMAIN file_cache \ {irp.file_id}
             /\ \A f \in DOMAIN file_cache' : file_cache'[f] = file_cache[f]
             /\ IF file_cache[irp.file_id].delete_pending
                THEN SentDeleteRequest(irp, file_cache[irp.file_id].path)
                ELSE RepliedClose(irp, "STATUS_SUCCESS") /\ tdp' = <<>>
        ELSE /\ RepliedClose(irp, "STATUS_UNSUCCESSFUL")
             /\ tdp' = <<>>
             /\ file_cache' = file_cache

C10_Deleted ==
  TookResponse("tdp_sd_delete")
  => /\ RepliedClose(last'.cont[1].rdp_req,
                     IF last'.res.err_code = "Nil"
                     THEN "STATUS_SUCCESS" ELSE "STATUS_UNSUCCESSFUL")
     /\ tdp' = <<>>
     /\ file_cache' = file_cache

\* C10: IRP_MJ_CLOSE of a file_id in the cache removes its FCO; with
\* delete_pending false the reply is STATUS_SUCCESS and no TDP request is
\* sent; with delete_pending true a Delete request for the FCO's path is sent
\* and the CLOSE reply, written when the Delete response arrives, is
\* STATUS_SUCCESS iff its err_code is Nil and STATUS_UNSUCCESSFUL otherwise.
\* IRP_MJ_CLOSE of a file_id not in the cache replies STATUS_UNSUCCESSFUL and
\* sends no TDP request.
C10_CloseRemoves == [][C10_Close /\ C10_Deleted]_vars

\* C10 witness: a file marked delete_pending was closed, the host answered the
\* Delete request with Nil and the CLOSE reply says SUCCESS.
C10_Witness ==
  /\ last.ev = "tdp"
  /\ last.kind = "delete"
  /\ last.cont # <<>>
  /\ last.cont[1].op = "tdp_sd_delete"
  /\ last.res.err_code = "Nil"
  /\ Written(out) # <<>>
  /\ Written(out)[1].rsp = "DeviceCloseResponse"
  /\ Written(out)[1].device_io_reply.io_status = "STATUS_SUCCESS"
  /\ file_cache = EmptyMap

\* ---- directory listing
\* the step populated the contents of file_id f from a List response and wrote
\* the reply of the initial query
PopulatedBy(f) ==
  /\ TookResponse("process_irp_directory_control")
  /\ last'.res.err_code = "Nil"
  /\ last'.cont[1].rdp_req.file_id = f
  /\ f \in DOMAIN file_cache'
  /\ WroteQueryDirReply(result', out')

\* the step wrote the reply of a non-initial query on f, whose contents a List
\* response had populated
NextReplyFor(f) ==
  /\ last'.ev = "irp"
  /\ last'.irp.major_function = "IRP_MJ_DIRECTORY_CONTROL"
  /\ last'.irp.minor_function = "IRP_MN_QUERY_DIRECTORY"
  /\ last'.irp.initial_query = 0
  /\ last'.irp.file_id = f
  /\ f \in DOMAIN listed
  /\ f \in DOMAIN file_cache'
  /\ WroteQueryDirReply(result', out')

\* the file name the k-th reply (from 0) of a listing carries
ListingName(contents, k) ==
  IF k = 0 THEN "." ELSE IF k = 1 THEN ".." ELSE contents[k - 1].path

\* the reply the step wrote is the k-th of the listing of contents at this level
IsListingReply(reply, contents, k, lvl) ==
  IF k < Len(contents) + 2
  THEN /\ reply.device_io_reply.io_status = "STATUS_SUCCESS"
       /\ Len(reply.buffer) = 1
       /\ reply.buffer[1].class = lvl
       /\ reply.buffer[1].file_name = ListingName(contents, k)
  ELSE /\ reply.device_io_reply.io_status = "STATUS_NO_MORE_FILES"
       /\ reply.length = 0
       /\ reply.buffer = <<>>
       /\ reply.padding = 1

C11_Step ==
  \A f \in FileIds :
    /\ PopulatedBy(f)
         => IsListingReply(Written(out')[1], file_cache'[f].contents, 0,
                           last'.cont[1].rdp_req.file_info_class_lvl)
    /\ (NextReplyFor(f) /\ listed[f] <= Len(file_cache'[f].contents) + 2)
         => IsListingReply(Written(out')[1], file_cache'[f].contents, listed[f],
                           last'.irp.file_info_class_lvl)

\* C11: whenever an initial QUERY_DIRECTORY on a directory FCO populates its
\* contents with n entries from the List response, the next n+2
\* QUERY_DIRECTORY replies for that file_id (the reply to the initial query,
\* then the replies to the non-initial queries) carry ".", "..", contents[0],
\* ..., contents[n-1] in this order with STATUS_SUCCESS, and the reply after
\* them is STATUS_NO_MORE_FILES with length 0 and one padding byte.
C11_DirectoryIteration == [][C11_Step]_vars

\* ---- rename
IsRename(irp) ==
  /\ irp.major_function = "IRP_MJ_SET_INFORMATION"
  /\ irp.file_information_class_level = "FileRenameInformation"

\* the step sent exactly this TDP request and wrote no reply
SentOnly(req) ==
  /\ result' = "ok"
  /\ tdp' = << req >>
  /\ Written(out') = <<>>

MoveRequestOf(req, original_path) ==
  [kind |-> "move", completion_id |-> req.completion_id, directory_id |-> req.device_id,
   original_path |-> original_path, new_path |-> req.set_buffer.file_name]

InfoRequestOf(req) ==
  [kind |-> "info", completion_id |-> req.completion_id, directory_id |-> req.device_id,
   path |-> req.set_buffer.file_name]

\* the step wrote exactly one SET_INFORMATION reply, to req, and sent no TDP request
RepliedSetInfo(req, io_status) ==
  /\ result' = "ok"
  /\ tdp' = <<>>
  /\ Len(Written(out')) = 1
  /\ Written(out')[1].rsp = "ClientDriveSetInformationResponse"
  /\ Written(out')[1].device_io_reply.completion_id = req.completion_id
  /\ Written(out')[1].device_io_reply.device_id = req.device_id
  /\ Written(out')[1].device_io_reply.io_status = io_status

\* the rename IRP on an open file: Move at once, or the Info probe of the destination
C12_Irp ==
  (/\ last'.ev = "irp"
   /\ IsRename(last'.irp)
   /\ last'.irp.file_id \in DOMAIN file_cache)
  => IF last'.irp.set_buffer.replace_if_exists
     THEN SentOnly(MoveRequestOf(last'.irp, file_cache[last'.irp.file_id].path))
     ELSE SentOnly(InfoRequestOf(last'.irp))

\* the answer of the probe: Move when the destination does not exist, else the
\* collision and no Move
C12_Probe ==
  (/\ TookResponse("rename_dont_replace_if_exists")
   /\ last'.cont[1].rdp_req.file_id \in DOMAIN file_cache)
  => IF last'.res.err_code = "DoesNotExist"
     THEN SentOnly(MoveRequestOf(last'.cont[1].rdp_req,
                                 file_cache[last'.cont[1].rdp_req.file_id].path))
     ELSE RepliedSetInfo(last'.cont[1].rdp_req, "STATUS_OBJECT_NAME_COLLISION")

\* the answer of the Move
C12_Moved ==
  (/\ TookResponse("tdp_sd_move")
   /\ last'.cont[1].rdp_req.file_id \in DOMAIN file_cache)
  => IF last'.res.err_code = "Nil"
     THEN RepliedSetInfo(last'.cont[1].rdp_req,
            IF DirectoryNotEmpty(file_cache[last'.cont[1].rdp_req.file_id])
            THEN "STATUS_DIRECTORY_NOT_EMPTY" ELSE "STATUS_SUCCESS")
     ELSE RepliedSetInfo(last'.cont[1].rdp_req, "STATUS_UNSUCCESSFUL")

\* C12: a rename (SET_INFORMATION, FileRenameInformation) of an open file with
\* replace_if_exists true sends the Move request at once, with no Info probe;
\* with replace_if_exists false it first sends an Info request for the
\* destination, and the Info response DoesNotExist sends the Move while any
\* other answers STATUS_OBJECT_NAME_COLLISION and sends no Move.  A Move
\* response Nil is answered with STATUS_DIRECTORY_NOT_EMPTY when the FCO is a
\* non-empty directory and STATUS_SUCCESS otherwise, any other Move response
\* with STATUS_UNSUCCESSFUL.
C12_Rename == [][C12_Irp /\ C12_Probe /\ C12_Moved]_vars

\* a rename that probed the destination, moved, and was answered STATUS_SUCCESS
C12_Witness ==
  /\ last.ev = "tdp"
  /\ last.kind = "move"
  /\ last.res.err_code = "Nil"
  /\ last.cont # <<>>
  /\ last.cont[1].op = "tdp_sd_move"
  /\ ~last.cont[1].rdp_req.set_buffer.replace_if_exists
  /\ result = "ok"
  /\ Len(Written(out)) = 1
  /\ Written(out)[1].rsp = "ClientDriveSetInformationResponse"
  /\ Written(out)[1].device_io_reply.io_status = "STATUS_SUCCESS"

\* ---- TDP failures
\* the step wrote exactly one reply, to the IRP req, with this status, and the
\* session goes on
RepliedStatus(req, io_status) ==
  /\ result' = "ok"
  /\ Len(Written(out')) = 1
  /\ Written(out')[1].device_io_reply.completion_id = req.completion_id
  /\ Written(out')[1].device_io_reply.device_id = req.device_id
  /\ Written(out')[1].device_io_reply.io_status = io_status

\* a continuation of one of these kinds took a response that reports a failure
FailedResponse(kinds) ==
  /\ last'.ev = "tdp"
  /\ last'.kind \in kinds
  /\ last'.cont # <<>>
  /\ last'.res.err_code # "Nil"

C13_Step ==
  FailedResponse({"create", "delete", "list", "read", "write", "move"})
  => RepliedStatus(last'.cont[1].rdp_req, "STATUS_UNSUCCESSFUL")

\* C13: for every pending Create, Delete, List, Read, Write or Move
\* continuation, a TDP response with err_code other than Nil is answered with
\* an RDP reply to the IRP carrying STATUS_UNSUCCESSFUL, and the session is not
\* terminated.
C13_FailureTranslated == [][C13_Step]_vars

\* ---- unsupported operations
SupportedMajorFunctions ==
  {"IRP_MJ_DEVICE_CONTROL", "IRP_MJ_CREATE", "IRP_MJ_QUERY_INFORMATION", "IRP_MJ_CLOSE",
   "IRP_MJ_DIRECTORY_CONTROL", "IRP_MJ_QUERY_VOLUME_INFORMATION", "IRP_MJ_READ",
   "IRP_MJ_WRITE", "IRP_MJ_SET_INFORMATION"}

Unsupported(irp) ==
  \/ irp.major_function \notin SupportedMajorFunctions
  \/ /\ irp.major_function = "IRP_MJ_DIRECTORY_CONTROL"
     /\ irp.minor_function \notin {"IRP_MN_QUERY_DIRECTORY", "IRP_MN_NOTIFY_CHANGE_DIRECTORY"}

C14_Step ==
  (last'.ev = "irp" /\ Unsupported(last'.irp))
  => /\ RepliedStatus(last'.irp, "STATUS_NOT_SUPPORTED")
     /\ out'[1].packet_id = "PAKID_CORE_DEVICE_IOCOMPLETION"

\* C14: with directory sharing allowed, an IRP whose major function is not one
\* of the nine the client implements, or a DIRECTORY_CONTROL IRP whose minor
\* function is neither QUERY_DIRECTORY nor NOTIFY_CHANGE_DIRECTORY, is answered
\* with a DEVICE_IOCOMPLETION carrying STATUS_NOT_SUPPORTED, and the session is
\* not terminated.
C14_UnsupportedOperation == [][C14_Step]_vars

\* ---- the chunks of encode_message
ChunkLength(chunk) == ChannelPDUHeader_decode(chunk).length

\* the chunks the peer holds are those of a message of msg.msg_type with msg.payload
WellChunked(msg, chunks) ==
  /\ chunks # <<>>
  /\ \A i \in 1..Len(chunks) :
       /\ ChunkLength(chunks[i]) = 8 + Len(msg.payload)
       /\ ("CHANNEL_FLAG_FIRST" \in ChunkFlags(chunks[i])) <=> (i = 1)
       /\ ("CHANNEL_FLAG_LAST" \in ChunkFlags(chunks[i])) <=> (i = Len(chunks))
       /\ i < Len(chunks) => Len(chunks[i]) - 8 = CHANNEL_CHUNK_LEGNTH
       /\ Len(chunks[i]) - 8 \in 1..CHANNEL_CHUNK_LEGNTH

\* the case of the test encodes_large_format_data_response
LargeFormatDataResponse(msg, chunks) ==
  (msg.msg_type = "CB_FORMAT_DATA_RESPONSE" /\ Len(msg.payload) = CHANNEL_CHUNK_LEGNTH + 2)
  => /\ Len(chunks) = 2
     /\ ChunkFlags(chunks[1]) = {"CHANNEL_FLAG_FIRST", "CHANNEL_FLAG_SHOW_PROTOCOL"}
     /\ ChunkFlags(chunks[2]) = {"CHANNEL_FLAG_LAST", "CHANNEL_FLAG_SHOW_PROTOCOL"}

\* C15: the chunks encode_message returns all carry the same total_length in
\* their channel header, the length of the clipboard header plus the payload;
\* CHANNEL_FLAG_FIRST is set on the first chunk and on no other,
\* CHANNEL_FLAG_LAST on the last chunk and on no other, and every chunk but
\* the last carries exactly CHANNEL_CHUNK_LEGNTH inner bytes; a
\* FORMAT_DATA_RESPONSE payload of CHANNEL_CHUNK_LEGNTH + 2 bytes gives two
\* chunks, FIRST only and then LAST only.
C15_Chunks ==
  cb_last.ev = "encode"
  => /\ WellChunked(cb_peer.msg[1], cb_peer.feed)
     /\ LargeFormatDataResponse(cb_peer.msg[1], cb_peer.feed)

\* the large FORMAT_DATA_RESPONSE, encoded into two chunks
C15_Witness ==
  /\ cb_last.ev = "encode"
  /\ cb_peer.msg[1].msg_type = "CB_FORMAT_DATA_RESPONSE"
  /\ Len(cb_peer.msg[1].payload) = CHANNEL_CHUNK_LEGNTH + 2
  /\ Len(cb_peer.feed) = 2

\* ---- the round trip of a message
C16_Step ==
  cb_last'.ev = "read"
  => IF cb_peer'.feed = <<>>
     THEN /\ Len(cb_last'.handled) = 1
          /\ cb_last'.handled[1].header.msg_type = cb_peer.msg[1].msg_type
          /\ cb_last'.handled[1].header.data_len = Len(cb_peer.msg[1].payload)
          /\ cb_last'.handled[1].payload = cb_peer.msg[1].payload
     ELSE /\ cb_last'.handled = <<>>
          /\ cb_result' = "ok"

\* C16: when the chunks encode_message(T, P) produced are fed in order to
\* Client::read, handle_message is invoked exactly once, on the last chunk,
\* with a clipboard header of type T and data_len = len(P) and with payload
\* bytes equal to P; no earlier chunk invokes it.
C16_RoundTrip == [][C16_Step]_vars

\* a message of three chunks has been reassembled
C16_Witness ==
  /\ cb_last.ev = "read"
  /\ cb_last.handled # <<>>
  /\ Len(cb_last.handled[1].payload) = 2 * CHANNEL_CHUNK_LEGNTH - 7
  /\ cb_last.handled[1].payload = cb_peer.msg[1].payload
  /\ Len(cb_pdu) = 3

\* ---- logical PDUs in any sequence of chunks
\* the bytes of a logical PDU after its clipboard header
RECURSIVE PduPayload(_)
PduPayload(pdu) ==
  IF pdu = <<>> THEN <<>>
  ELSE PduPayload(SubSeq(pdu, 1, Len(pdu) - 1))
         \o Drop(pdu[Len(pdu)], IF Len(pdu) = 1 THEN 16 ELSE 8)

PduHeader(pdu) == ClipboardPDUHeader_decode(Drop(pdu[1], 8))

\* the chunk of this step has completed a logical PDU
PduCompleted(pdu) == pdu # <<>> /\ ~PduOpen(pdu)

C17_Step ==
  cb_last'.ev = "read"
  => IF PduCompleted(cb_pdu') /\ PduHeader(cb_pdu').ok
     THEN cb_last'.handled =
            << [header |-> PduHeader(cb_pdu').header, payload |-> PduPayload(cb_pdu')] >>
     ELSE cb_last'.handled = <<>>

\* C17: in any sequence of inbound chunks, each logical PDU (a FIRST chunk,
\* middle chunks, a LAST chunk) is dispatched to handle_message exactly once,
\* when its LAST chunk arrives, with the clipboard header of its FIRST chunk
\* and the concatenation of exactly its chunks' payloads; no other chunk
\* dispatches anything, and no byte of an earlier PDU or of a stray chunk is
\* part of what is dispatched.
C17_ExactlyOnce == [][C17_Step]_vars

\* a PDU of two chunks dispatched after a stray chunk
C17_Witness ==
  /\ cb_last.ev = "read"
  /\ cb_last.handled # <<>>
  /\ cb_last.handled[1].payload # <<>>
  /\ Len(cb_pdu) = 2
  /\ cb_peer.sent = 3

C18_Step ==
  (/\ cb_last'.ev = "read"
   /\ "CHANNEL_FLAG_LAST" \in ChunkFlags(cb_last'.chunk)
   /\ "CHANNEL_FLAG_FIRST" \notin ChunkFlags(cb_last'.chunk)
   /\ cb_pending.clipboard_header = <<>>)
  => cb_result' = "err"

\* C18: Client::read fails when a chunk carrying CHANNEL_FLAG_LAST arrives
\* while no clipboard header is pending, that is without a FIRST chunk before
\* it for that PDU.
C18_LastWithoutFirst == [][C18_Step]_vars

\* the inner bytes of the chunks of a logical PDU
RECURSIVE PduBytes(_)
PduBytes(pdu) ==
  IF pdu = <<>> THEN 0 ELSE (Len(pdu[1]) - 8) + PduBytes(Tail(pdu))

C19_Step ==
  cb_last'.ev = "read"
  => /\ (cb_pdu' # <<>> /\ PduBytes(cb_pdu') > ChunkLength(cb_pdu'[1])) => cb_result' = "err"
     /\ (cb_result' = "ok" /\ cb_pending'.clipboard_header # <<>>)
          => Len(cb_pending'.data) <= cb_pending'.total_length

\* C19: Client::read fails as soon as the bytes accumulated for a logical PDU
\* exceed the total_length its FIRST chunk announced, so that the pending
\* buffer of a PDU under way never holds more than total_length bytes.
C19_TotalLength == [][C19_Step]_vars

\* ---- the initialization of the clipboard
Handled(msg_type) ==
  /\ cb_last'.ev = "read"
  /\ cb_last'.handled # <<>>
  /\ cb_last'.handled[1].header.msg_type = msg_type

\* the chunk is a whole PDU of this type
WholePdu(chunk, msg_type) ==
  /\ {"CHANNEL_FLAG_FIRST", "CHANNEL_FLAG_LAST"} \subseteq ChunkFlags(chunk)
  /\ ClipboardPDUHeader_decode(Drop(chunk, 8)).ok
  /\ ClipboardPDUHeader_decode(Drop(chunk, 8)).header.msg_type = msg_type

C20_Step ==
  /\ (Handled("CB_CLIP_CAPS") /\ cb_result' = "ok") => cb_out' = <<>>
  /\ Handled("CB_MONITOR_READY")
     => /\ cb_result' = "ok"
        /\ Len(cb_out') = 2
        /\ WholePdu(cb_out'[1], "CB_CLIP_CAPS")
        /\ WholePdu(cb_out'[2], "CB_FORMAT_LIST")
        /\ ClipboardPDUHeader_decode(Drop(cb_out'[2], 8)).header
             = ClipboardPDUHeader_new("CB_FORMAT_LIST", {}, 6)
        /\ Drop(cb_out'[2], 16) = << 0, 0, 0, 0, 0, 0 >>

\* C20: an inbound CB_CLIP_CAPS emits nothing; an inbound CB_MONITOR_READY,
\* whether or not a CB_CLIP_CAPS was received before it, emits exactly two
\* PDUs, a CB_CLIP_CAPS and then a CB_FORMAT_LIST with header flags 0,
\* data_len 6 and a single long format name of format id 0 (four zero bytes)
\* and no name (the two zero bytes of the terminator).
C20_Initialization == [][C20_Step]_vars

\* CB_MONITOR_READY answered after a CB_CLIP_CAPS was received
C20_Witness ==
  /\ cb_last.ev = "read"
  /\ cb_last.handled # <<>>
  /\ cb_last.handled[1].header.msg_type = "CB_MONITOR_READY"
  /\ "CB_CLIP_CAPS" \in cb_peer.received
  /\ Len(cb_out) = 2

\* ---- the capabilities the client advertises
\* the flags of the general capability set in the CB_CLIP_CAPS PDU of a chunk
EmittedCapsFlags(chunk) ==
  FlagsOf(ClipboardGeneralCapabilityFlags, read_u32(Drop(chunk, 16 + 12)))

C21_Step ==
  Handled("CB_MONITOR_READY")
  => /\ cb_out' # <<>>
     /\ WholePdu(cb_out'[1], "CB_CLIP_CAPS")
     /\ ClipboardCapabilitiesPDU_decode_ok(Drop(cb_out'[1], 16))
     /\ EmittedCapsFlags(cb_out'[1]) = {"CB_USE_LONG_FORMAT_NAMES"}

\* C21: the general capability set in the CB_CLIP_CAPS PDU emitted in response
\* to CB_MONITOR_READY has flags equal to exactly CB_USE_LONG_FORMAT_NAMES, no
\* other flag bit being set.
C21_CapsFlags == [][C21_Step]_vars

\* ---- an inbound format list
SentList == CHOOSE list \in FormatLists : FormatListPDU_encode(list) = cb_peer.msg[1].payload

Supported(name) ==
  \/ name.format_id = CF_OEMTEXT
  \/ name.format_name = << CLIPBOARD_FORMAT_NAME_FILE_LIST >>

\* the chunk is a whole FORMAT_DATA_REQUEST PDU for this format id
IsDataRequest(chunk, format_id) ==
  /\ WholePdu(chunk, "CB_FORMAT_DATA_REQUEST")
  /\ Drop(chunk, 16) = write_u32(format_id)

C22_Step ==
  (/\ Handled("CB_FORMAT_LIST")
   /\ \E list \in FormatLists : FormatListPDU_encode(list) = cb_peer.msg[1].payload)
  => LET requested == SelectSeq(SentList, Supported)
     IN /\ cb_result' = "ok"
        /\ Len(cb_out') = 1 + Len(requested)
        /\ WholePdu(cb_out'[1], "CB_FORMAT_LIST_RESPONSE")
        /\ ClipboardPDUHeader_decode(Drop(cb_out'[1], 8)).header
             = ClipboardPDUHeader_new("CB_FORMAT_LIST_RESPONSE", {"CB_RESPONSE_OK"}, 0)
        /\ \A i \in 1..Len(requested) : IsDataRequest(cb_out'[i + 1], requested[i].format_id)

\* C22: an inbound FORMAT_LIST is answered first by a FORMAT_LIST_RESPONSE
\* with CB_RESPONSE_OK, also when no listed format is supported, followed by
\* one FORMAT_DATA_REQUEST per listed format whose id is CF_OEMTEXT or whose
\* name is "FileGroupDescriptorW", in list order, each for that format's id;
\* the other formats produce no PDU.
C22_FormatList == [][C22_Step]_vars

\* the file list and the text of one format list both requested, in list order
C22_Witness ==
  /\ cb_last.ev = "read"
  /\ cb_last.handled # <<>>
  /\ cb_last.handled[1].header.msg_type = "CB_FORMAT_LIST"
  /\ Len(cb_out) = 3
  /\ IsDataRequest(cb_out[2], FileGroupDescriptorW.format_id)
  /\ IsDataRequest(cb_out[3], CF_OEMTEXT)

\* ---- an inbound format data request
\* the chunks are those of one FORMAT_DATA_RESPONSE PDU with CB_RESPONSE_OK
\* carrying these bytes
IsDataResponse(chunks, data) ==
  /\ chunks # <<>>
  /\ \A i \in DOMAIN chunks :
       /\ ("CHANNEL_FLAG_FIRST" \in ChunkFlags(chunks[i])) = (i = 1)
       /\ ("CHANNEL_FLAG_LAST" \in ChunkFlags(chunks[i])) = (i = Len(chunks))
  /\ PduHeader(chunks).ok
  /\ PduHeader(chunks).header
       = ClipboardPDUHeader_new("CB_FORMAT_DATA_RESPONSE", {"CB_RESPONSE_OK"}, Len(data))
  /\ PduPayload(chunks) = data

C23_Step ==
  \A id \in RequestedIds :
    (/\ Handled("CB_FORMAT_DATA_REQUEST")
     /\ cb_peer.msg[1].payload = FormatDataRequestPDU_encode(id))
    => /\ cb_clipboard' = cb_clipboard
       /\ IF id \in DOMAIN cb_clipboard
          THEN cb_result' = "ok" /\ IsDataResponse(cb_out', cb_clipboard[id])
          ELSE cb_result' = "err" /\ cb_out' = <<>>

\* C23: an inbound FORMAT_DATA_REQUEST is served from the clipboard map only:
\* for a format id that is a key of the map exactly one FORMAT_DATA_RESPONSE
\* with CB_RESPONSE_OK and the cached bytes is emitted; for an id that is not,
\* the handler fails and emits no PDU; the map is left unchanged in both cases.
C23_DataRequest == [][C23_Step]_vars

\* a cached text of more than a chunk served in two chunks
C23_Witness ==
  /\ cb_last.ev = "read"
  /\ cb_last.handled # <<>>
  /\ cb_last.handled[1].header.msg_type = "CB_FORMAT_DATA_REQUEST"
  /\ Len(cb_out) = 2
  /\ IsDataResponse(cb_out, cb_clipboard[CF_OEMTEXT])

\* a request for a format the clipboard has no data for has failed
C23_WitnessAbsent ==
  /\ cb_last.ev = "read"
  /\ cb_last.handled # <<>>
  /\ cb_last.handled[1].header.msg_type = "CB_FORMAT_DATA_REQUEST"
  /\ cb_updates > 0
  /\ cb_result = "err"

\* ---- remote paste of text
\* the bytes without a single trailing NUL byte
WithoutTrailingNul(data) ==
  IF data # <<>> /\ data[Len(data)] = 0 THEN SubSeq(data, 1, Len(data) - 1) ELSE data

C24_Step ==
  (/\ Handled("CB_FORMAT_DATA_RESPONSE")
   /\ "CB_RESPONSE_OK" \in cb_last'.handled[1].header.msg_flags
   /\ ~cb_file_list_manager.is_expecting_file_list)
  => /\ cb_result' = "ok"
     /\ cb_copied' = << WithoutTrailingNul(cb_peer.msg[1].payload) >>

\* C24: for an inbound FORMAT_DATA_RESPONSE with CB_RESPONSE_OK handled while
\* is_expecting_file_list is false, on_remote_copy is called exactly once,
\* with the response bytes from which a single trailing NUL byte, if there is
\* one, has been removed; bytes not ending in NUL are passed unchanged.
C24_RemotePaste == [][C24_Step]_vars

\* FORMAT_LIST(id 7), then the data "abc\0" delivered as "abc"
C24_Witness ==
  /\ cb_last.ev = "read"
  /\ cb_last.handled # <<>>
  /\ cb_last.handled[1].header.msg_type = "CB_FORMAT_DATA_RESPONSE"
  /\ cb_last.handled[1].payload = << 97, 98, 99, 0 >>
  /\ "CB_FORMAT_LIST" \in cb_peer.received
  /\ ~cb_file_list_manager.is_expecting_file_list
  /\ cb_copied = << << 97, 98, 99 >> >>

\* ---- a local copy
\* B with every LF that is not preceded by a CR replaced by CR LF
RECURSIVE Crlf(_)
Crlf(B) ==
  IF B = <<>> THEN <<>>
  ELSE LET n == Len(B)
       IN Crlf(SubSeq(B, 1, n - 1))
            \o (IF B[n] = 10 /\ (n = 1 \/ B[n - 1] # 13) THEN << 13, 10 >> ELSE << B[n] >>)

Updated == cb_last'.ev = "update"

C25_Step ==
  Updated
  => /\ DOMAIN cb_clipboard' = DOMAIN cb_clipboard \cup {CF_OEMTEXT}
     /\ \A k \in DOMAIN cb_clipboard \ {CF_OEMTEXT} : cb_clipboard'[k] = cb_clipboard[k]
     /\ cb_clipboard'[CF_OEMTEXT] \in {Crlf(cb_last'.data), Append(Crlf(cb_last'.data), 0)}
     /\ cb_last'.data = << 97, 98, 99 >> => cb_clipboard'[CF_OEMTEXT] = << 97, 98, 99, 0 >>
     /\ Len(cb_out') = 1
     /\ WholePdu(cb_out'[1], "CB_FORMAT_LIST")
     /\ Drop(cb_out'[1], 16) = write_u32(CF_OEMTEXT) \o << 0, 0 >>

C26_Step ==
  Updated
  => /\ cb_clipboard'[CF_OEMTEXT] # <<>>
     /\ cb_clipboard'[CF_OEMTEXT][Len(cb_clipboard'[CF_OEMTEXT])] = 0

\* C26: after update_clipboard(B), for every byte string B, the empty string
\* and strings already ending in NUL included, the bytes cached under
\* CF_OEMTEXT are not empty and end with a NUL byte.
C26_NullTerminated == [][C26_Step]_vars

C27_Step ==
  (/\ Updated
   /\ CF_OEMTEXT \in DOMAIN cb_clipboard
   /\ cb_last'.data = cb_clipboard[CF_OEMTEXT])
  => cb_clipboard'[CF_OEMTEXT] = cb_clipboard[CF_OEMTEXT]

\* C27: calling update_clipboard with the bytes update_clipboard has cached
\* leaves the bytes cached under CF_OEMTEXT unchanged: a CR LF pair is not
\* doubled and a trailing NUL is not duplicated.
C27_Idempotent == [][C27_Step]_vars

\* cached bytes with a CR LF pair and a trailing NUL have been copied again
C27_Witness ==
  /\ cb_last.ev = "update"
  /\ cb_updates = 2
  /\ cb_last.data = << 97, 13, 10, 0 >>
  /\ cb_clipboard[CF_OEMTEXT] = << 97, 13, 10, 0 >>

\* ---- round trips: what the step that receives the IRP writes
\* the IRPs that need a TDP round trip, in the state in which they arrive
NeedsRoundTrip(irp) ==
  \/ irp.major_function = "IRP_MJ_CREATE"
  \/ /\ irp.major_function \in {"IRP_MJ_READ", "IRP_MJ_WRITE"}
     /\ irp.file_id \in DOMAIN file_cache
  \/ /\ irp.major_function = "IRP_MJ_CLOSE"
     /\ irp.file_id \in DOMAIN file_cache
     /\ file_cache[irp.file_id].delete_pending
  \/ /\ irp.major_function = "IRP_MJ_DIRECTORY_CONTROL"
     /\ irp.minor_function = "IRP_MN_QUERY_DIRECTORY"
     /\ irp.file_id \in DOMAIN file_cache
     /\ file_cache[irp.file_id].fso.file_type = "Directory"
     /\ irp.initial_query = 1
  \/ /\ irp.major_function = "IRP_MJ_SET_INFORMATION"
     /\ irp.file_information_class_level = "FileRenameInformation"
     /\ irp.file_id \in DOMAIN file_cache

\* the step received an IRP that needs a round trip: it sent one TDP request
\* and registered a continuation under the completion_id of the IRP
StartedRoundTrip ==
  /\ last'.ev = "irp"
  /\ NeedsRoundTrip(last'.irp)
  /\ result' = "ok"
  /\ Len(tdp') = 1
  /\ \E k \in Kinds : last'.irp.completion_id \in DOMAIN pending'[k]

C28_AtIrp ==
  (last'.ev = "irp" /\ NeedsRoundTrip(last'.irp))
  => /\ StartedRoundTrip
     /\ out' = <<>>

C28_AtResponse ==
  (last'.ev = "tdp" /\ last'.cont # <<>> /\ result' = "ok")
  => IF last'.final
     THEN /\ Len(out') = 1
          /\ Len(out'[1].payload) = 1
          /\ out'[1].payload[1].device_io_reply.completion_id = last'.res.completion_id
     ELSE out' = <<>>

\* C28: when an IRP needs a TDP round trip (CREATE, READ or WRITE on a cached
\* file, CLOSE with delete_pending, the initial QUERY_DIRECTORY, a rename), the
\* step that handles the IRP sends the TDP request, registers a continuation
\* and writes nothing to the RDPDR channel; the one reply of the IRP is written
\* by the step that handles the final TDP response of its round trip.
C28_NothingAtIrp == [][C28_AtIrp /\ C28_AtResponse]_vars

\* ---- IRPs arriving while earlier ones await their replies, the server
\* ---- choosing a completion_id that no IRP still awaiting its reply carries
Unused(completion_id) == \A i \in 1..Len(awaiting) : awaiting[i] # completion_id

FreshCreate ==
  /\ Running
  /\ \E irp \in DrvCreateReqs : Unused(irp.completion_id) /\ DeviceIoRequestStep(irp)

FreshRename ==
  /\ Running
  /\ \E irp \in IrpRenameReqs : Unused(irp.completion_id) /\ DeviceIoRequestStep(irp)

FreshRead ==
  /\ Running
  /\ \E irp \in IrpReadReqs : Unused(irp.completion_id) /\ DeviceIoRequestStep(irp)

FreshClose ==
  /\ Running
  /\ \E irp \in IrpHeaders("IRP_MJ_CLOSE") : Unused(irp.completion_id) /\ DeviceIoRequestStep(irp)

NextFresh ==
  \/ FreshCreate
  \/ FreshRename
  \/ FreshRead
  \/ FreshClose
  \/ TdpInfoResponse
  \/ TdpCreateResponse
  \/ TdpDeleteResponse
  \/ TdpReadResponse
  \/ TdpMoveResponse

SpecFresh == InitShared /\ [][NextFresh]_vars

\* the continuation tables that hold the completion_id
TablesOf(completion_id) == {k \in Kinds : completion_id \in DOMAIN pending[k]}

C29_AtMostOneTable == \A c \in CompletionIds : Cardinality(TablesOf(c)) <= 1

\* the step that handled a response a continuation waited for has taken the
\* continuation out of the table of that kind; a follow-up is in another table
C29_Removed ==
  (last'.ev = "tdp" /\ last'.cont # <<>>)
  => /\ last'.res.completion_id \notin DOMAIN pending'[last'.kind]
     /\ (result' = "ok" /\ ~last'.final)
        => \E k \in Kinds \ {last'.kind} : last'.res.completion_id \in DOMAIN pending'[k]

\* C29: when the server never reuses the completion_id of an IRP still awaiting
\* its reply, each completion_id is a key of at most one of the seven
\* continuation tables in every reachable state, and the step that handles the
\* matching TDP response removes it from that table before a follow-up
\* continuation (Info->Create, Info->Delete->Create, Info->Move) is
\* registered, which is then the only table holding it.
C29_OneTable == [][C29_AtMostOneTable /\ C29_AtMostOneTable' /\ C29_Removed]_vars

\* C29 witness: the Delete response of the chain Info->Delete->Create was
\* handled while another IRP awaited its reply: the completion_id has left the
\* delete table and is in the create table alone.
C29_Witness ==
  /\ last.ev = "tdp"
  /\ last.kind = "delete"
  /\ last.cont # <<>>
  /\ last.cont[1].op = "tdp_sd_overwrite"
  /\ TablesOf(last.res.completion_id) = {"create"}
  /\ Len(awaiting) = 2

\* ---- how long a file_id stays in file_cache
\* the step wrote a CREATE reply that says SUCCESS: the file_id it returned is
\* in the cache
C30_AtCreate ==
  (/\ result' = "ok"
   /\ Len(Written(out')) = 1
   /\ Written(out')[1].rsp = "DeviceCreateResponse"
   /\ Written(out')[1].device_io_reply.io_status = "STATUS_SUCCESS")
  => Written(out')[1].file_id \in DOMAIN file_cache'

\* the step wrote the CLOSE reply of an IRP_MJ_CLOSE for file_id
EmittedCloseReply(file_id) ==
  /\ result' = "ok"
  /\ Len(Written(out')) = 1
  /\ Written(out')[1].rsp = "DeviceCloseResponse"
  /\ \/ last'.ev = "irp" /\ last'.irp.file_id = file_id
     \/ /\ last'.ev = "tdp"
        /\ last'.cont # <<>>
        /\ last'.cont[1].rdp_req.file_id = file_id

\* the step received an IRP_MJ_CLOSE for file_id
ReceivedClose(file_id) ==
  /\ last'.ev = "irp"
  /\ last'.irp.major_function = "IRP_MJ_CLOSE"
  /\ last'.irp.file_id = file_id

\* the Delete round trips of CLOSE IRPs that are pending
PendingCloses(table) ==
  {table[c].rdp_req : c \in {d \in DOMAIN table : table[d].op = "tdp_sd_delete"}}

C30_LeavesAtReply ==
  \A f \in DOMAIN file_cache : f \notin DOMAIN file_cache' => EmittedCloseReply(f)

C30_PresentDuringDelete ==
  \A req \in PendingCloses(pending'["delete"]) : req.file_id \in DOMAIN file_cache'

\* C30 as stated: a file_id returned in a successful CREATE reply stays in
\* file_cache until the reply to the IRP_MJ_CLOSE for that file_id is emitted;
\* in particular it is still there while the Delete round trip of a CLOSE with
\* delete_pending is pending.
C30_LiveUntilCloseReply ==
  [][C30_AtCreate /\ C30_LeavesAtReply /\ C30_PresentDuringDelete]_vars

C30_LeavesAtClose ==
  \A f \in DOMAIN file_cache : f \notin DOMAIN file_cache' <=> ReceivedClose(f)

C30_AbsentDuringDelete ==
  \A req \in PendingCloses(pending'["delete"]) : req.file_id \notin DOMAIN file_cache'

\* C30: a file_id returned in a successful CREATE reply stays in file_cache
\* until the IRP_MJ_CLOSE for that file_id is handled, and that step removes
\* it: the CLOSE reply of a file without delete_pending is written by that
\* same step, while with delete_pending the file_id is already absent during
\* the Delete round trip and when the CLOSE reply is emitted.
C30_LiveUntilClose ==
  [][C30_AtCreate /\ C30_LeavesAtClose /\ C30_AbsentDuringDelete]_vars

\* C30 witness: a file was created, marked delete_pending and closed; the
\* Delete request of the CLOSE is pending and the file_id is not in the cache.
C30_Witness ==
  /\ last.ev = "irp"
  /\ last.irp.major_function = "IRP_MJ_CLOSE"
  /\ PendingCloses(pending["delete"]) = {last.irp}
  /\ last.irp.file_id = next_file_id
  /\ file_cache = EmptyMap
  /\ nround = 2

\* ---- the generator of file ids
\* A session in which every file opened so far has been closed again:
\* next_file_id is the number of files opened, modulo the width of the counter.
InitOpened ==
  /\ allow_directory_sharing = TRUE
  /\ active_device_ids = <<>>
  /\ file_cache = EmptyMap
  /\ next_file_id \in 0..(2 ^ FileIdBits - 1)
  /\ pending = [k \in Kinds |-> EmptyMap]
  /\ tdp = <<>>
  /\ out = <<>>
  /\ result = "ok"
  /\ last = [ev |-> "new"]
  /\ awaiting = <<>>
  /\ nround = 0
  /\ listed = EmptyMap
  /\ ClipNew

SpecFileIds == InitOpened /\ [][NextCreate]_vars

\* the step wrote a CREATE reply that says SUCCESS
SuccessfulCreateReply ==
  /\ result' = "ok"
  /\ Len(Written(out')) = 1
  /\ Written(out')[1].rsp = "DeviceCreateResponse"
  /\ Written(out')[1].device_io_reply.io_status = "STATUS_SUCCESS"

C31_Step ==
  /\ SuccessfulCreateReply => Written(out')[1].file_id # 0
  /\ 0 \notin DOMAIN file_cache'

\* C31: generate_file_id never returns 0, also after next_file_id has wrapped
\* around the width of the counter: file_id 0 appears only in failed CREATE
\* replies and is never a key of file_cache.
C31_NonZero == [][C31_Step]_vars

\* ---- rename: the path of the FCO afterwards
\* the step handled a Move response that says Nil
C32_PathUpdated ==
  (TookResponse("tdp_sd_move") /\ last'.res.err_code = "Nil" /\ result' = "ok")
  => LET req == last'.cont[1].rdp_req
     IN /\ req.file_id \in DOMAIN file_cache'
        /\ file_cache'[req.file_id].path = req.set_buffer.file_name

\* a Read, Write, List or Delete request for a file_id carries the path of its FCO
C32_RequestsUsePath ==
  (/\ last'.ev = "irp"
   /\ result' = "ok"
   /\ Len(tdp') = 1
   /\ tdp'[1].kind \in {"read", "write", "list", "delete"})
  => tdp'[1].path = file_cache[last'.irp.file_id].path

\* C32: after a rename (SET_INFORMATION / FileRenameInformation) whose Move
\* response has err_code Nil, the path stored in the FCO of that file_id is the
\* new path, so that the later Read, Write, List and Delete requests for the
\* file_id are sent with the new path.
C32_RenamedPath == [][C32_PathUpdated /\ C32_RequestsUsePath]_vars

\* ---- SET_INFORMATION other than a rename, one IRP at a time
IrpSetAttributeReqs ==
  {irp \in IrpSetInformationReqs :
     irp.file_information_class_level # "FileRenameInformation"}

SeqSetInformation ==
  /\ Running
  /\ Quiescent
  /\ \E irp \in IrpSetAttributeReqs : DeviceIoRequestStep(irp)

NextSetInformation ==
  \/ SeqCreate
  \/ SeqSetInformation
  \/ SeqClose
  \/ TdpInfoResponse
  \/ TdpCreateResponse
  \/ TdpDeleteResponse

SpecSetInformation == InitShared /\ [][NextSetInformation]_vars

\* the status that stands for success on this FCO
SuccessStatus(file) ==
  IF file.fso.file_type = "Directory" /\ file.fso.is_empty = 0
  THEN "STATUS_DIRECTORY_NOT_EMPTY" ELSE "STATUS_SUCCESS"

C33_Step ==
  (/\ last'.ev = "irp"
   /\ last'.irp.major_function = "IRP_MJ_SET_INFORMATION"
   /\ last'.irp.file_information_class_level # "FileRenameInformation")
  => LET irp == last'.irp
         lvl == irp.file_information_class_level
     IN /\ tdp' = <<>>
        /\ pending' = pending
        /\ DOMAIN file_cache' = DOMAIN file_cache
        /\ \A f \in DOMAIN file_cache \ {irp.file_id} : file_cache'[f] = file_cache[f]
        /\ IF irp.file_id \notin DOMAIN file_cache
           THEN RepliedSetInfo(irp, "STATUS_UNSUCCESSFUL")
           ELSE LET file == file_cache[irp.file_id]
                IN /\ RepliedSetInfo(irp, SuccessStatus(file))
                   /\ IF lvl = "FileDispositionInformation"
                         /\ SuccessStatus(file) = "STATUS_SUCCESS"
                      THEN file_cache'[irp.file_id] =
                             [file EXCEPT !.delete_pending = (irp.set_buffer.delete_pending = 1)]
                      ELSE file_cache'[irp.file_id] = file

\* C33: SET_INFORMATION / FileDispositionInformation on a cached FCO sends no
\* TDP request; on a directory with is_empty false it leaves delete_pending
\* unchanged and replies STATUS_DIRECTORY_NOT_EMPTY, otherwise it sets
\* delete_pending to (delete_pending byte = 1) and replies STATUS_SUCCESS; for
\* a file_id not in the cache the reply is STATUS_UNSUCCESSFUL.
\* FileBasicInformation, FileEndOfFileInformation and
\* FileAllocationInformation reply with the same status and change nothing in
\* the FCO.
C33_SetInformation == [][C33_Step]_vars

\* C33 witness: a non-empty directory was opened and marked for deletion: the
\* reply says STATUS_DIRECTORY_NOT_EMPTY and delete_pending is still false.
C33_Witness ==
  /\ last.ev = "irp"
  /\ last.irp.major_function = "IRP_MJ_SET_INFORMATION"
  /\ last.irp.file_information_class_level = "FileDispositionInformation"
  /\ last.irp.set_buffer.delete_pending = 1
  /\ last.irp.file_id \in DOMAIN file_cache
  /\ file_cache[last.irp.file_id].fso.file_type = "Directory"
  /\ file_cache[last.irp.file_id].fso.is_empty = 0
  /\ ~file_cache[last.irp.file_id].delete_pending
  /\ Len(Written(out)) = 1
  /\ Written(out)[1].device_io_reply.io_status = "STATUS_DIRECTORY_NOT_EMPTY"

\* ---- the device announces: CLIENTID_CONFIRM messages of the server and
\* ---- drive announces of the host in any order, and the device controls that
\* ---- look the smart card up or ask about the drive and its volume
NextDevices ==
  \/ ClientIdConfirm
  \/ DriveAnnounce
  \/ IrpDeviceControl
  \/ IrpQueryInformation
  \/ IrpQueryVolumeInformation

SpecDevices == InitShared /\ [][NextDevices]_vars

\* C34: in every reachable state, whatever the interleaving of CLIENTID_CONFIRM
\* messages and drive announces of the host, the smart-card device id, if it
\* is in active_device_ids, is at index 0, so that get_scard_device_id returns
\* the smart-card id and never a drive id.
C34_ScardFirst ==
  Contains(active_device_ids, SCARD_DEVICE_ID)
  => /\ active_device_ids[1] = SCARD_DEVICE_ID
     /\ get_scard_device_id(active_device_ids) = [ok |-> TRUE, id |-> SCARD_DEVICE_ID]

\* ---- the announce of the smart card
NoDuplicates(ids) == \A i, j \in 1..Len(ids) : ids[i] = ids[j] => i = j

\* the one message of the step is a DEVICELIST_ANNOUNCE of these devices
AnnouncedDevices(msgs, device_list) ==
  /\ Len(msgs) = 1
  /\ msgs[1].packet_id = "PAKID_CORE_DEVICELIST_ANNOUNCE"
  /\ msgs[1].payload = << [device_count |-> Len(device_list), device_list |-> device_list] >>

C35_Step ==
  /\ (last'.ev = "client_id_confirm")
     => IF Contains(active_device_ids, SCARD_DEVICE_ID)
        THEN /\ AnnouncedDevices(out', << >>)
             /\ active_device_ids' = active_device_ids
        ELSE /\ AnnouncedDevices(out', << SCARD_DEVICE_ID >>)
             /\ active_device_ids' = Append(active_device_ids, SCARD_DEVICE_ID)
  /\ NoDuplicates(active_device_ids')

\* C35: the smart card is announced at most once per session: the first
\* CLIENTID_CONFIRM received while id 1 is not active emits a
\* DEVICELIST_ANNOUNCE with exactly the smart-card device (id 1) and records
\* id 1 in active_device_ids; every later CLIENTID_CONFIRM emits a
\* DEVICELIST_ANNOUNCE with device_count 0 and leaves active_device_ids
\* unchanged; and active_device_ids never contains a duplicate id.
C35_AnnouncedOnce == [][C35_Step]_vars

\* C35 witness: the smart card and a drive are active, and a further
\* CLIENTID_CONFIRM was answered with an empty announce.
C35_Witness ==
  /\ last.ev = "client_id_confirm"
  /\ active_device_ids = << SCARD_DEVICE_ID, DriveDeviceId >>
  /\ AnnouncedDevices(out, << >>)

\* ---- is_expecting_file_list
\* the step handled a FORMAT_LIST of the server's lists and did not fail
HandledList ==
  /\ Handled("CB_FORMAT_LIST")
  /\ cb_result' = "ok"
  /\ \E list \in FormatLists : FormatListPDU_encode(list) = cb_peer.msg[1].payload

C36_Step ==
  /\ (cb_last = [ev |-> "new"]) => ~cb_file_list_manager.is_expecting_file_list
  /\ IF HandledList /\ SelectSeq(SentList, Supported) # <<>>
     THEN LET requested == SelectSeq(SentList, Supported)
          IN cb_file_list_manager'.is_expecting_file_list
               = (requested[Len(requested)].format_id # CF_OEMTEXT)
     ELSE cb_file_list_manager'.is_expecting_file_list
            = cb_file_list_manager.is_expecting_file_list

\* C36: is_expecting_file_list is false initially and is changed only by the
\* handling of an inbound FORMAT_LIST, after which it reflects the last
\* supported format of the list: false for the id CF_OEMTEXT, true for a
\* format of another id named "FileGroupDescriptorW".  A FORMAT_LIST with no
\* supported format, every other inbound message (FORMAT_DATA_RESPONSE
\* included) and every call of update_clipboard leave it unchanged.
C36_ExpectingFileList == [][C36_Step]_vars

\* C36 witness: a format list set the flag, and the FORMAT_DATA_RESPONSE
\* handled after it, parsed as a file list, left it set.
C36_Witness ==
  /\ cb_last.ev = "read"
  /\ cb_last.handled # <<>>
  /\ cb_last.handled[1].header.msg_type = "CB_FORMAT_DATA_RESPONSE"
  /\ cb_result = "ok"
  /\ cb_file_list_manager.is_expecting_file_list
  /\ cb_copied = << <<>> >>

\* ---- file lists.  The server announces a file list or text and answers the
\* ---- request with one chunk: a file list of up to two descriptors, complete
\* ---- or cut short, or a failure.
Zeros(n) == [i \in 1..n |-> 0]

\* the bytes of a CLIPRDR_FILEDESCRIPTOR up to the end of its name
DescriptorBytes(flags, file_attributes, last_write_time, size_high, size_low, file_name) ==
  write_u32(flags) \o Zeros(32) \o write_u32(file_attributes) \o Zeros(16)
    \o last_write_time \o write_u32(size_high) \o write_u32(size_low)
    \o encode_utf16(file_name) \o << 0, 0 >>

\* the descriptor in its slot of 592 bytes
DescriptorSlot(bytes) == bytes \o Zeros(592 - Len(bytes))

\* the file "a" of 5 bytes, with attributes and size valid, an archive
WireFileA == DescriptorBytes(68, 32, << 1, 0, 0, 0, 0, 0, 0, 0 >>, 0, 5, << 97 >>)

FileA ==
  [flags |-> {"FD_ATTRIBUTES", "FD_FILESIZE"}, file_attributes |-> {"FILE_ATTRIBUTE_ARCHIVE"},
   last_write_time |-> << 1, 0, 0, 0, 0, 0, 0, 0 >>, file_size |-> << 0, 5 >>,
   file_name |-> << 97 >>]

\* the directory "bc", its flags carrying a bit that FileDescriptorFlags does not name
WireFileB == DescriptorBytes(69, 16, << 2, 0, 0, 0, 0, 0, 0, 0 >>, 1, 0, << 98, 99 >>)

FileB ==
  [flags |-> {"FD_ATTRIBUTES", "FD_FILESIZE"}, file_attributes |-> {"FILE_ATTRIBUTE_DIRECTORY"},
   last_write_time |-> << 2, 0, 0, 0, 0, 0, 0, 0 >>, file_size |-> << 1, 0 >>,
   file_name |-> << 98, 99 >>]

\* file lists all of whose descriptors are there: [bytes, files]; the slot of
\* the last descriptor may end with its name
WholeFileLists ==
  { [bytes |-> write_u32(0), files |-> <<>>],
    [bytes |-> write_u32(1) \o DescriptorSlot(WireFileA), files |-> << FileA >>],
    [bytes |-> write_u32(2) \o DescriptorSlot(WireFileA) \o DescriptorSlot(WireFileB),
     files |-> << FileA, FileB >>],
    [bytes |-> write_u32(2) \o DescriptorSlot(WireFileB) \o WireFileA,
     files |-> << FileB, FileA >>] }

\* file lists that announce more descriptors than they hold
CutFileLists ==
  { write_u32(2) \o DescriptorSlot(WireFileA),
    write_u32(1) \o SubSeq(WireFileA, 1, 40),
    << 1, 0 >> }

FileListData == {l.bytes : l \in WholeFileLists} \cup CutFileLists

\* a FORMAT_DATA_RESPONSE in one chunk
DataResponseChunk(msg_flags, data) ==
  ChannelPDUHeader_encode(8 + Len(data), {"CHANNEL_FLAG_FIRST", "CHANNEL_FLAG_LAST"})
    \o ClipboardPDUHeader_encode(
         ClipboardPDUHeader_new("CB_FORMAT_DATA_RESPONSE", msg_flags, Len(data)))
    \o data

PeerAnnounce ==
  /\ cb_result = "ok"
  /\ cb_peer.feed = <<>>
  /\ \E list \in { << FileGroupDescriptorW >>, << OemText >> } :
       Encode("CB_FORMAT_LIST", FormatListPDU_encode(list))

PeerFileList ==
  /\ cb_result = "ok"
  /\ cb_peer.feed = <<>>
  /\ cb_peer.sent < MaxChunks
  /\ \E data \in FileListData : ReadStep(DataResponseChunk({"CB_RESPONSE_OK"}, data))

PeerFailure ==
  /\ cb_result = "ok"
  /\ cb_peer.feed = <<>>
  /\ cb_peer.sent < MaxChunks
  /\ \E data \in { <<>>, write_u32(1) \o DescriptorSlot(WireFileA) } :
       \E msg_flags \in { {"CB_RESPONSE_FAIL"}, {} } :
         ReadStep(DataResponseChunk(msg_flags, data))

NextFileList ==
  \/ LocalCopy
  \/ PeerAnnounce
  \/ PeerSend
  \/ PeerFileList
  \/ PeerFailure

SpecFileList == InitDisabled /\ [][NextFileList]_vars

\* the step handled a FORMAT_DATA_RESPONSE with these bytes
HandledResponse ==
  /\ Handled("CB_FORMAT_DATA_RESPONSE")
  /\ cb_last'.chunk \in
       { DataResponseChunk(cb_last'.handled[1].header.msg_flags, cb_last'.handled[1].payload) }

\* the descriptors of the slots of a file list
RECURSIVE SlotDescriptors(_, _)
SlotDescriptors(slots, count) ==
  IF count = 0 THEN <<>>
  ELSE << FileDescriptor_read(slots) >> \o SlotDescriptors(Drop(slots, 592), count - 1)

C37_Parsed ==
  (/\ HandledResponse
   /\ "CB_RESPONSE_OK" \in cb_last'.handled[1].header.msg_flags
   /\ cb_file_list_manager.is_expecting_file_list)
  => LET payload == cb_last'.handled[1].payload
     IN /\ cb_result' = "ok"
        /\ cb_copied' = << <<>> >>
        /\ cb_file_list_manager'.file_list
             = cb_file_list_manager.file_list
                 \o SlotDescriptors(Drop(payload, 4), read_u32(payload))

C37_Failed ==
  (/\ HandledResponse
   /\ "CB_RESPONSE_OK" \notin cb_last'.handled[1].header.msg_flags)
  => /\ cb_copied' = <<>>
     /\ cb_file_list_manager' = cb_file_list_manager
     /\ cb_clipboard' = cb_clipboard

\* C37 as stated: a FORMAT_DATA_RESPONSE with RESPONSE_OK handled while
\* is_expecting_file_list is true is parsed as a file list: file_list grows by
\* exactly `count` descriptors, appended in wire order, each read from its
\* slot of 592 bytes, the earlier entries kept, and on_remote_copy is called
\* exactly once, with an empty payload.  A FORMAT_DATA_RESPONSE without
\* RESPONSE_OK calls no callback and changes neither file_list nor the
\* clipboard map.
C37_FileListAsStated == [][C37_Parsed /\ C37_Failed]_vars

\* the descriptors of a file list whose fixed 72 bytes are in the payload,
\* counted from the first: the read of the next one fails
RECURSIVE ReadableDescriptors(_, _)
ReadableDescriptors(slots, count) ==
  IF count = 0 \/ Len(slots) < 72 THEN 0
  ELSE 1 + ReadableDescriptors(Drop(slots, 592), count - 1)

C37_ParsedWhole ==
  (/\ HandledResponse
   /\ "CB_RESPONSE_OK" \in cb_last'.handled[1].header.msg_flags
   /\ cb_file_list_manager.is_expecting_file_list)
  => LET payload == cb_last'.handled[1].payload
         count == IF Len(payload) < 4 THEN 0 ELSE read_u32(payload)
         readable == ReadableDescriptors(Drop(payload, 4), count)
     IN /\ cb_file_list_manager'.file_list
             = cb_file_list_manager.file_list \o SlotDescriptors(Drop(payload, 4), readable)
        /\ IF Len(payload) >= 4 /\ readable = count
           THEN cb_result' = "ok" /\ cb_copied' = << <<>> >>
           ELSE cb_result' = "err" /\ cb_copied' = <<>>

\* C37: a FORMAT_DATA_RESPONSE with RESPONSE_OK handled while
\* is_expecting_file_list is true is parsed as a file list.  When the payload
\* holds the count and the fixed 72 bytes of each of its `count` descriptors,
\* one per slot of 592 bytes, file_list grows by exactly `count` descriptors in
\* wire order, the earlier entries kept, and on_remote_copy is called exactly
\* once, with an empty payload; otherwise the response is an error, file_list
\* keeps the descriptors read before the failing one and on_remote_copy is not
\* called.  A FORMAT_DATA_RESPONSE without RESPONSE_OK calls no callback and
\* changes neither file_list nor the clipboard map.
C37_FileList == [][C37_ParsedWhole /\ C37_Failed]_vars

\* C37 witness: the file list ("a") and then the file list ("bc", "a") were
\* handled: three descriptors, the first kept, and one call with no bytes.
C37_Witness ==
  /\ cb_last.ev = "read"
  /\ cb_last.handled # <<>>
  /\ cb_last.handled[1].header.msg_type = "CB_FORMAT_DATA_RESPONSE"
  /\ cb_result = "ok"
  /\ cb_file_list_manager.file_list = << FileA, FileB, FileA >>
  /\ cb_copied = << <<>> >>

\* ---------------------------------------------------------------------------
\* C38.  Which request a FORMAT_DATA_RESPONSE answers.

\* the request was issued for the file list: the client requests CF_OEMTEXT
\* and, under any other id, the format named "FileGroupDescriptorW"
ForFileList(format_id) == format_id # CF_OEMTEXT

C38_Step ==
  (Handled("CB_FORMAT_DATA_RESPONSE") /\ cb_requested # <<>>)
  => cb_file_list_manager.is_expecting_file_list = ForFileList(Head(cb_requested))

\* C38: whenever a FORMAT_DATA_RESPONSE is handled, is_expecting_file_list is
\* true exactly when the FORMAT_DATA_REQUEST it answers (the oldest one not
\* answered yet) was issued for the "FileGroupDescriptorW" format, also when
\* one FORMAT_LIST advertised both CF_OEMTEXT and the file list, so that a
\* text response is never parsed as a file list and a file list never passed
\* on as text.
C38_FlagMatchesRequest == [][C38_Step]_vars

\* ---------------------------------------------------------------------------
\* C39.  A file_id that is not, or no longer, in the cache.  The server sends
\* IRPs while earlier ones await their TDP response: a directory open under
\* file_id 1 can be closed between its initial QUERY_DIRECTORY and the List
\* response.
ClsInitialQuery ==
  /\ Running
  /\ \E irp \in LstQueryReqs :
       /\ irp.initial_query # 0
       /\ Unused(irp.completion_id)
       /\ DeviceIoRequestStep(irp)

FreshWrite ==
  /\ Running
  /\ \E irp \in IrpWriteReqs : Unused(irp.completion_id) /\ DeviceIoRequestStep(irp)

NextClosing ==
  \/ ClsInitialQuery
  \/ FreshClose
  \/ FreshRead
  \/ FreshWrite
  \/ FreshRename
  \/ TdpListResponse
  \/ TdpReadResponse
  \/ TdpWriteResponse
  \/ TdpMoveResponse

SpecClosing == InitListing /\ [][NextClosing]_vars

\* the step wrote exactly one reply of the given struct for req, with
\* STATUS_UNSUCCESSFUL, and sent no TDP request
RepliedUnsuccessful(rsp, req) ==
  /\ result' = "ok"
  /\ tdp' = <<>>
  /\ Len(Written(out')) = 1
  /\ Written(out')[1].rsp = rsp
  /\ Written(out')[1].device_io_reply.completion_id = req.completion_id
  /\ Written(out')[1].device_io_reply.device_id = req.device_id
  /\ Written(out')[1].device_io_reply.io_status = "STATUS_UNSUCCESSFUL"

\* the List response (err_code Nil) of an initial query whose file_id left the cache
ListedAfterClose ==
  /\ TookResponse("process_irp_directory_control")
  /\ last'.res.err_code = "Nil"
  /\ last'.cont[1].rdp_req.file_id \notin DOMAIN file_cache

\* a READ, a WRITE or a rename IRP for a file_id that is not in the cache
UncachedIrp(major) ==
  /\ last'.ev = "irp"
  /\ last'.irp.major_function = major
  /\ last'.irp.file_id \notin DOMAIN file_cache

C39_Step ==
  /\ ListedAfterClose
     => /\ RepliedUnsuccessful("ClientDriveQueryDirectoryResponse", last'.cont[1].rdp_req)
        /\ Written(out')[1].buffer = <<>>
        /\ file_cache' = file_cache
  /\ UncachedIrp("IRP_MJ_READ")
     => /\ RepliedUnsuccessful("DeviceReadResponse", last'.irp)
        /\ pending' = pending /\ file_cache' = file_cache
  /\ UncachedIrp("IRP_MJ_WRITE")
     => /\ RepliedUnsuccessful("DeviceWriteResponse", last'.irp)
        /\ pending' = pending /\ file_cache' = file_cache
  /\ (UncachedIrp("IRP_MJ_SET_INFORMATION")
      /\ last'.irp.file_information_class_level = "FileRenameInformation")
     => /\ RepliedUnsuccessful("ClientDriveSetInformationResponse", last'.irp)
        /\ pending' = pending /\ file_cache' = file_cache

\* C39: when the directory of an initial QUERY_DIRECTORY is closed while its
\* List request is pending, the List response with err_code Nil is answered by
\* a QUERY_DIRECTORY reply with STATUS_UNSUCCESSFUL and the file_id is not put
\* back into file_cache; a READ, a WRITE or a rename IRP for a file_id that is
\* not in the cache is answered with STATUS_UNSUCCESSFUL and sends no TDP
\* request.
C39_UncachedFileId == [][C39_Step]_vars

\* C39 witness: the List response of a query arrived after the close of its
\* directory and was answered with STATUS_UNSUCCESSFUL.
C39_Witness ==
  /\ last.ev = "tdp" /\ last.kind = "list" /\ last.cont # <<>>
  /\ last.res.err_code = "Nil"
  /\ last.cont[1].rdp_req.file_id \notin DOMAIN file_cache
  /\ result = "ok"
  /\ Len(Written(out)) = 1
  /\ Written(out)[1].rsp = "ClientDriveQueryDirectoryResponse"
  /\ Written(out)[1].device_io_reply.io_status = "STATUS_UNSUCCESSFUL"

\* ---------------------------------------------------------------------------
\* C40.  Liveness of the completion of an IRP.  The server sends IRPs while
\* others await their reply and never reuses a completion_id in use; the host
\* answers every TDP request the client sent, once, with a response that no
\* continuation turns into an error.
LiveOther ==
  /\ Running
  /\ \E irp \in IrpOtherReqs : Unused(irp.completion_id) /\ DeviceIoRequestStep(irp)

\* the host answers a request of the given kind that is awaiting its response
Answer(kind) ==
  \E res \in UNION { ResponsesTo(kind, c) : c \in DOMAIN pending[kind] } :
    /\ handle_tdp_sd_response(Cli, kind, res).res = "ok"
    /\ TdpResponseStep(kind, res)

AnswerInfo ==
  /\ Running
  /\ Answer("info")

AnswerCreate ==
  /\ Running
  /\ Answer("create")

AnswerDelete ==
  /\ Running
  /\ Answer("delete")

AnswerRead ==
  /\ Running
  /\ Answer("read")

AnswerWrite ==
  /\ Running
  /\ Answer("write")

AnswerMove ==
  /\ Running
  /\ Answer("move")

HostAnswers ==
  AnswerInfo \/ AnswerCreate \/ AnswerDelete \/ AnswerRead \/ AnswerWrite \/ AnswerMove

NextLive ==
  \/ FreshCreate
  \/ FreshRename
  \/ FreshRead
  \/ FreshWrite
  \/ FreshClose
  \/ LiveOther
  \/ AnswerInfo
  \/ AnswerCreate
  \/ AnswerDelete
  \/ AnswerRead
  \/ AnswerWrite
  \/ AnswerMove

\* the host is a running process: a request it has received is answered
SpecLive == InitShared /\ [][NextLive]_vars /\ WF_vars(HostAnswers)

\* the IRP with this completion_id registered a continuation and awaits its reply
AwaitsReply(c) == \E i \in 1..Len(awaiting) : awaiting[i] = c

\* a reply struct written by the last step carries this completion_id
RepliesTo(msgs, c) ==
  {i \in 1..Len(Written(msgs)) : Written(msgs)[i].device_io_reply.completion_id = c}

\* the last step ended the round trip of the IRP c: it wrote one reply, which
\* carries the device_id and the completion_id of the IRP, and left no
\* continuation under c in any table
Completed(c) ==
  /\ last.ev = "tdp" /\ last.final
  /\ last.res.completion_id = c
  /\ Len(Written(out)) = 1
  /\ Written(out)[1].device_io_reply.completion_id = last.cont[1].rdp_req.completion_id
  /\ Written(out)[1].device_io_reply.device_id = last.cont[1].rdp_req.device_id
  /\ TablesOf(c) = {}

\* while the IRP c awaits its reply, a reply carrying c is written only by the
\* step that ends its round trip
C40_Once ==
  \A c \in CompletionIds :
    (AwaitsReply(c) /\ RepliesTo(out', c) # {} /\ out' # out)
    => (~AwaitsReply(c)' /\ Completed(c)')

\* C40: when the server never reuses a completion_id in use, the host answers
\* every TDP request once and no response is turned into an error, every IRP
\* that registered a continuation eventually gets exactly one reply, carrying
\* its device_id and completion_id, after which no table holds a continuation
\* under that completion_id.
C40_Completion ==
  /\ [][C40_Once]_vars
  /\ \A c \in CompletionIds : AwaitsReply(c) ~> Completed(c)

====
